---- MODULE Spec2Model ----
(***************************************************************************)
(* Model of the AmneziaWG extension of the tailscale client:               *)
(*   - the peer discovery pass, requestAWGConfigsFromPeers                 *)
(*     (cmd/tailscale/cli/amnezia.go), a fan-out of goroutines behind a    *)
(*     counting semaphore, a fan-in channel and a statistics loop;         *)
(*   - the reconciliation engine, Config.ToUAPI (wgengine/wgcfg/writer.go).*)
(* Slice indices are 1-based here (Go's are 0-based); index 0 stands for   *)
(* the idx field of a zero-valued result.                                  *)
(***************************************************************************)
EXTENDS Integers, Sequences, FiniteSets, TLC

(***************************************************************************)
(* Bounds of the model.                                                    *)
(***************************************************************************)
\* Largest number of input peers of a discovery pass.
MaxPeers == 2

\* Capacity of the admission gate (the sem channel).  The source sets
\* awgSyncMaxConcurrent = 10; the model scales it down so that passes with
\* more peers than admission slots are explored exhaustively.  Every formula
\* is stated relative to this definition, never to a literal.
awgSyncMaxConcurrent == 1

\* Largest number of peers of a Config that is reconciled against itself.
MaxConfigPeers == 2

\* The sink may reject any one of its first MaxFailAt writes.
MaxFailAt == 2

(***************************************************************************)
(* ipn.AmneziaWGPrefs and isConfigZero.                                    *)
(***************************************************************************)
MagicHeaderRange(min, max) == [Min |-> min, Max |-> max]

ZeroPrefs ==
    [JC |-> 0, JMin |-> 0, JMax |-> 0,
     S1 |-> 0, S2 |-> 0, S3 |-> 0, S4 |-> 0,
     I1 |-> "", I2 |-> "", I3 |-> "", I4 |-> "", I5 |-> "",
     H1 |-> MagicHeaderRange(0, 0), H2 |-> MagicHeaderRange(0, 0),
     H3 |-> MagicHeaderRange(0, 0), H4 |-> MagicHeaderRange(0, 0)]

\* Mutant: only the lower bound of a header range is looked at.
isConfigZeroMinOnly(config) ==
    /\ config.JC = 0 /\ config.JMin = 0 /\ config.JMax = 0
    /\ config.S1 = 0 /\ config.S2 = 0 /\ config.S3 = 0 /\ config.S4 = 0
    /\ config.I1 = "" /\ config.I2 = "" /\ config.I3 = ""
    /\ config.I4 = "" /\ config.I5 = ""
    /\ config.H1.Min = 0 /\ config.H2.Min = 0
    /\ config.H3.Min = 0 /\ config.H4.Min = 0

isConfigZero(config) ==
    /\ config.JC = 0 /\ config.JMin = 0 /\ config.JMax = 0
    /\ config.S1 = 0 /\ config.S2 = 0 /\ config.S3 = 0 /\ config.S4 = 0
    /\ config.I1 = "" /\ config.I2 = "" /\ config.I3 = ""
    /\ config.I4 = "" /\ config.I5 = ""
    /\ (config.H1.Min = 0 /\ config.H1.Max = 0)
    /\ (config.H2.Min = 0 /\ config.H2.Max = 0)
    /\ (config.H3.Min = 0 /\ config.H3.Max = 0)
    /\ (config.H4.Min = 0 /\ config.H4.Max = 0)

\* The parameter sets a queried peer may answer with: the standard (all-zero)
\* set and a custom one.
JunkPrefs == [ZeroPrefs EXCEPT !.JC = 4, !.JMin = 64, !.JMax = 96]

PeerPrefs == {ZeroPrefs, JunkPrefs}

(***************************************************************************)
(* State of a discovery pass.                                              *)
(***************************************************************************)
VARIABLES
    peers,        \* the input slice: peers[i] is the i-th peerInfo (its name)
    ctxCancelled, \* the caller's ctx has been cancelled
    mainPc,       \* position of requestAWGConfigsFromPeers itself
    spawnIdx,     \* number of goroutines started by the dispatch loop
    gpc,          \* position of each per-peer goroutine
    res,          \* goroutine i's locals cfg, err, zero, failed (as a result)
    sem,          \* number of tokens held in the sem channel
    wg,           \* the WaitGroup counter
    mu,           \* holder of the mutex (0: unlocked)
    configs,      \* the shared configs slice
    resultsCh,    \* buffered contents of the results channel (FIFO)
    chClosed,     \* resultsCh has been closed
    closerPc,     \* position of the goroutine that waits and closes
    ordered,      \* the index-ordered result slice of the collector
    statIdx,      \* next index of the statistics loop
    stats,        \* awgDiscoveryStats
    printed,      \* the report lines written so far
    ret,          \* the returned (configs, stats, error), once returned
    reqCount,     \* requests issued to each peer (calls of requestAWGConfigFromPeer)
    cancelSeen    \* history: ctx was already cancelled when peer i's request returned

dvars == <<peers, ctxCancelled, mainPc, spawnIdx, gpc, res, sem, wg,
           mu, configs, resultsCh, chClosed, closerPc, ordered, statIdx,
           stats, printed, ret, reqCount, cancelSeen>>

(***************************************************************************)
(* State of a call of Config.ToUAPI.                                       *)
(***************************************************************************)
VARIABLES
    ucfg,       \* the receiver cfg: the desired Config
    uprev,      \* prev: the previous Config
    uenv,       \* the TS_AMNEZIA_* environment knobs
    wfails,     \* the numbers of the writes that the sink w rejects
    upc,        \* position of ToUAPI
    upi,        \* index of the peer loop over cfg.Peers
    uold,       \* the keys left in the map old, once the removals start
    ucalls,     \* the directives handed to fmt.Fprintf(w, ...), in order
    usink,      \* the directives the sink accepted, in order
    stickyErr,  \* 0: nil; n: the error of the n-th write
    ulog,       \* the messages passed to logf
    uret        \* the returned error, once returned

uvars == <<ucfg, uprev, uenv, wfails, upc, upi, uold, ucalls, usink, stickyErr,
           ulog, uret>>

(***************************************************************************)
(* State of an application of a pure function (isConfigZero, cidrsEqual).  *)
(***************************************************************************)
VARIABLES
    fkind,      \* the function applied
    fcfg,       \* the argument of isConfigZero
    fx, fy,     \* the arguments of cidrsEqual
    fout        \* the results, once the function has returned

fvars == <<fkind, fcfg, fx, fy, fout>>

\* The interactive sync command (runAmneziaWGSync).
VARIABLES
    spc,        \* position: "idle", "start", "select", "confirm", "restart", "done"
    scands,     \* peerConfigs, the candidate list of the handler
    ssel,       \* index of the selected candidate, 0 when none
    sprefs,     \* the node's preferences
    sedits,     \* the MaskedPrefs handed to EditPrefs, in order
    sdisc,      \* number of calls of requestAWGConfigsFromPeers
    sshown,     \* the selection list as last printed
    sreads,     \* number of lines read from stdin
    snos,       \* number of returns to the list after a "no"
    smsg,       \* the last message printed
    sret,       \* the value returned, "none" while running
    slast       \* the last line read: its prompt, its text, ssel before it

svars == <<spc, scands, ssel, sprefs, sedits, sdisc, sshown, sreads, snos, smsg, sret,
           slast>>

\* The interactive prompts of the manual configuration mode.
VARIABLES
    ppos,       \* the prompt that is next: "JC", ..., "S1", ..., "H1min", ..., "done"
    pcfg,       \* config, the parameters being edited
    pmin,       \* the local hNMin of promptHeaderParameters
    peof,       \* stdin is at its end
    plast,      \* the last prompt answered: its field and the line typed
    pmsgs       \* the messages printed when the last line was handled

pvars == <<ppos, pcfg, pmin, peof, plast, pmsgs>>

xvars == <<fvars, svars, pvars>>

vars == <<dvars, uvars, xvars>>

N == Len(peers)
Idx == 1..N

\* The zero value of the local type result.
ZeroResult == [idx |-> 0, cfg |-> ZeroPrefs, err |-> "nil", zero |-> FALSE, failed |-> FALSE]

ZeroStats == [Total |-> 0, WithConfig |-> 0, Standard |-> 0, Failed |-> 0]

NoReturn == [returned |-> FALSE]

DInit ==
    /\ \E n \in 0..MaxPeers : peers = [i \in 1..n |-> i]
    /\ ctxCancelled = FALSE
    /\ mainPc = "spawn"
    /\ spawnIdx = 0
    /\ gpc = [i \in 1..Len(peers) |-> "none"]
    /\ res = [i \in 1..Len(peers) |-> ZeroResult]
    /\ sem = 0
    /\ wg = 0
    /\ mu = 0
    /\ configs = <<>>
    /\ resultsCh = <<>>
    /\ chClosed = FALSE
    /\ closerPc = "none"
    /\ ordered = <<>>
    /\ statIdx = 0
    /\ stats = ZeroStats
    /\ printed = <<>>
    /\ ret = NoReturn
    /\ reqCount = [i \in 1..Len(peers) |-> 0]
    /\ cancelSeen = [i \in 1..Len(peers) |-> FALSE]

(***************************************************************************)
(* The dispatch loop: wg.Add(1); go func() {...}() for each peer, then the *)
(* goroutine that waits for the group and closes the channel.              *)
(***************************************************************************)
Spawn ==
    /\ mainPc = "spawn"
    /\ spawnIdx < N
    /\ spawnIdx' = spawnIdx + 1
    /\ wg' = wg + 1
    /\ gpc' = [gpc EXCEPT ![spawnIdx + 1] = "admit"]
    /\ UNCHANGED <<uvars, xvars, cancelSeen>>
    /\ UNCHANGED <<peers, ctxCancelled, mainPc, res, sem, mu, configs,
                   resultsCh, chClosed, closerPc, ordered, statIdx, stats,
                   printed, ret, reqCount>>

SpawnCloser ==
    /\ mainPc = "spawn"
    /\ spawnIdx = N
    /\ closerPc' = "wait"
    /\ ordered' = [i \in 1..N |-> ZeroResult]
    /\ mainPc' = "collect"
    /\ UNCHANGED <<uvars, xvars, cancelSeen>>
    /\ UNCHANGED <<peers, ctxCancelled, spawnIdx, gpc, res, sem, wg, mu,
                   configs, resultsCh, chClosed, statIdx, stats, printed, ret,
                   reqCount>>

(***************************************************************************)
(* A per-peer goroutine.                                                   *)
(***************************************************************************)
\* Mutant: the gate admits one request too many.
SemHasRoomOffByOne == sem <= awgSyncMaxConcurrent

\* sem <- struct{}{} blocks while the channel holds awgSyncMaxConcurrent
\* tokens.
SemHasRoom == sem < awgSyncMaxConcurrent

\* sem <- struct{}{}; peerCtx := context.WithTimeout(ctx, ...); the call of
\* requestAWGConfigFromPeer is issued.
Acquire(i) ==
    /\ gpc[i] = "admit"
    /\ SemHasRoom
    /\ sem' = sem + 1
    /\ gpc' = [gpc EXCEPT ![i] = "inflight"]
    /\ reqCount' = [reqCount EXCEPT ![i] = @ + 1]
    /\ UNCHANGED <<uvars, xvars, cancelSeen>>
    /\ UNCHANGED <<peers, ctxCancelled, mainPc, spawnIdx, res, wg, mu,
                   configs, resultsCh, chClosed, closerPc, ordered, statIdx,
                   stats, printed, ret>>

\* Mutant: the per-peer context is derived from context.Background().
PeerCtxDetached(i) == FALSE

\* Mutant: one timeout context is shared by all requests, so the first
\* deadline that passes ends every sibling's context.
PeerCtxSharedDeadline(i) == ctxCancelled \/ \E k \in 1..Len(peers) : res[k].err = "deadline"

\* peerCtx, cancel := context.WithTimeout(ctx, awgSyncPerPeerTimeout): peerCtx
\* is done as soon as ctx is cancelled; otherwise its own deadline may pass
\* while the request is outstanding.
PeerCtxCancelled(i) == ctxCancelled

\* localClient.RequestAmneziaWGConfig: what a call may return.  With a
\* cancelled context it fails with the context's error.  Otherwise the peer
\* answers with its parameters, the transport fails, or the peer stays silent
\* until the context's deadline passes.
RequestAmneziaWGConfig(cancelled) ==
    IF cancelled
    THEN {[cfg |-> ZeroPrefs, err |-> "canceled"]}
    ELSE {[cfg |-> c, err |-> "nil"] : c \in PeerPrefs}
            \cup {[cfg |-> c, err |-> "transport"] : c \in PeerPrefs}
            \cup {[cfg |-> ZeroPrefs, err |-> "deadline"]}

requestAWGConfigFromPeer(i) == RequestAmneziaWGConfig(PeerCtxCancelled(i))

\* Mutant: the error of the request is not looked at.
WillAppendIgnoringErr(r) == ~r.zero

\* if err == nil && !zero { ... append ... }
WillAppend(r) == r.err = "nil" /\ ~r.zero

MkResult(i, o) ==
    [idx |-> i, cfg |-> o.cfg, err |-> o.err,
     zero |-> isConfigZero(o.cfg), failed |-> o.err # "nil"]

\* Mutant: a request that fails in the transport is issued once more.
ReturnWithRetry(i) ==
    /\ gpc[i] = "inflight"
    /\ \E o \in requestAWGConfigFromPeer(i) :
          IF o.err = "transport" /\ reqCount[i] < 2
          THEN /\ reqCount' = [reqCount EXCEPT ![i] = @ + 1]
               /\ UNCHANGED <<res, gpc>>
          ELSE /\ res' = [res EXCEPT ![i] = MkResult(i, o)]
               /\ gpc' = [gpc EXCEPT ![i] = IF WillAppend(MkResult(i, o)) THEN "lock" ELSE "send"]
               /\ UNCHANGED reqCount
    /\ cancelSeen' = [cancelSeen EXCEPT ![i] = ctxCancelled]
    /\ UNCHANGED <<uvars, xvars>>
    /\ UNCHANGED <<peers, ctxCancelled, mainPc, spawnIdx, sem, wg, mu,
                   configs, resultsCh, chClosed, closerPc, ordered, statIdx,
                   stats, printed, ret>>

\* The request returns; zero and failed are computed.
Return(i) ==
    /\ gpc[i] = "inflight"
    /\ \E o \in requestAWGConfigFromPeer(i) :
          /\ res' = [res EXCEPT ![i] = MkResult(i, o)]
          /\ gpc' = [gpc EXCEPT ![i] = IF WillAppend(MkResult(i, o)) THEN "lock" ELSE "send"]
    /\ cancelSeen' = [cancelSeen EXCEPT ![i] = ctxCancelled]
    /\ UNCHANGED <<uvars, xvars>>
    /\ UNCHANGED <<peers, ctxCancelled, mainPc, spawnIdx, sem, wg, mu,
                   configs, resultsCh, chClosed, closerPc, ordered, statIdx,
                   stats, printed, ret, reqCount>>

\* mu.Lock()
Lock(i) ==
    /\ gpc[i] = "lock"
    /\ mu = 0
    /\ mu' = i
    /\ gpc' = [gpc EXCEPT ![i] = "append"]
    /\ UNCHANGED <<uvars, xvars, cancelSeen>>
    /\ UNCHANGED <<peers, ctxCancelled, mainPc, spawnIdx, res, sem, wg,
                   configs, resultsCh, chClosed, closerPc, ordered, statIdx,
                   stats, printed, ret, reqCount>>

\* configs = append(configs, peerAWGConfig{...}); mu.Unlock()
AppendUnlock(i) ==
    /\ gpc[i] = "append"
    /\ configs' = Append(configs, [Peer |-> peers[i], Config |-> res[i].cfg])
    /\ mu' = 0
    /\ gpc' = [gpc EXCEPT ![i] = "send"]
    /\ UNCHANGED <<uvars, xvars, cancelSeen>>
    /\ UNCHANGED <<peers, ctxCancelled, mainPc, spawnIdx, res, sem, wg,
                   resultsCh, chClosed, closerPc, ordered, statIdx, stats,
                   printed, ret, reqCount>>

\* Mutant: the result is sent again while the channel holds no result of
\* this goroutine.
SendTwice(i) ==
    /\ gpc[i] = "send"
    /\ Len(resultsCh) < Len(peers)
    /\ ~chClosed
    /\ resultsCh' = Append(resultsCh, res[i])
    /\ gpc' = [gpc EXCEPT ![i] = IF \E j \in 1..Len(resultsCh) : resultsCh[j].idx = i
                                 THEN "release" ELSE "send"]
    /\ UNCHANGED <<uvars, xvars, cancelSeen>>
    /\ UNCHANGED <<peers, ctxCancelled, mainPc, spawnIdx, res, sem, wg,
                   mu, configs, chClosed, closerPc, ordered, statIdx, stats,
                   printed, ret, reqCount>>

\* resultsCh <- result{...}; the channel is buffered with capacity len(peers).
\* (A send on a closed channel would panic; it is not a step of the model.)
Send(i) ==
    /\ gpc[i] = "send"
    /\ Len(resultsCh) < N
    /\ ~chClosed
    /\ resultsCh' = Append(resultsCh, res[i])
    /\ gpc' = [gpc EXCEPT ![i] = "release"]
    /\ UNCHANGED <<uvars, xvars, cancelSeen>>
    /\ UNCHANGED <<peers, ctxCancelled, mainPc, spawnIdx, res, sem, wg,
                   mu, configs, chClosed, closerPc, ordered, statIdx, stats,
                   printed, ret, reqCount>>

\* Mutant: the admission slot is not given back.
ReleaseKeepsSlot(i) ==
    /\ gpc[i] = "release"
    /\ gpc' = [gpc EXCEPT ![i] = "wgdone"]
    /\ UNCHANGED <<uvars, xvars, cancelSeen>>
    /\ UNCHANGED <<peers, ctxCancelled, mainPc, spawnIdx, res, sem, wg, mu,
                   configs, resultsCh, chClosed, closerPc, ordered, statIdx,
                   stats, printed, ret, reqCount>>

\* deferred: cancel(); <-sem
Release(i) ==
    /\ gpc[i] = "release"
    /\ sem' = sem - 1
    /\ gpc' = [gpc EXCEPT ![i] = "wgdone"]
    /\ UNCHANGED <<uvars, xvars, cancelSeen>>
    /\ UNCHANGED <<peers, ctxCancelled, mainPc, spawnIdx, res, wg, mu,
                   configs, resultsCh, chClosed, closerPc, ordered, statIdx,
                   stats, printed, ret, reqCount>>

\* deferred: wg.Done()
Done(i) ==
    /\ gpc[i] = "wgdone"
    /\ wg' = wg - 1
    /\ gpc' = [gpc EXCEPT ![i] = "exit"]
    /\ UNCHANGED <<uvars, xvars, cancelSeen>>
    /\ UNCHANGED <<peers, ctxCancelled, mainPc, spawnIdx, res, sem, mu,
                   configs, resultsCh, chClosed, closerPc, ordered, statIdx,
                   stats, printed, ret, reqCount>>

(***************************************************************************)
(* go func() { wg.Wait(); close(resultsCh) }()                             *)
(***************************************************************************)
\* Mutant: the channel is closed without waiting for the group.
CloseResultsWithoutWait ==
    /\ closerPc = "wait"
    /\ chClosed' = TRUE
    /\ closerPc' = "exit"
    /\ UNCHANGED <<uvars, xvars, cancelSeen>>
    /\ UNCHANGED <<peers, ctxCancelled, mainPc, spawnIdx, gpc, res, sem,
                   wg, mu, configs, resultsCh, ordered, statIdx, stats, printed,
                   ret, reqCount>>

CloseResults ==
    /\ closerPc = "wait"
    /\ wg = 0
    /\ chClosed' = TRUE
    /\ closerPc' = "exit"
    /\ UNCHANGED <<uvars, xvars, cancelSeen>>
    /\ UNCHANGED <<peers, ctxCancelled, mainPc, spawnIdx, gpc, res, sem,
                   wg, mu, configs, resultsCh, ordered, statIdx, stats, printed,
                   ret, reqCount>>

(***************************************************************************)
(* The collector: for r := range resultsCh { ordered[r.idx] = r }          *)
(***************************************************************************)
\* Mutant: the results are stored in the order of their arrival.
CollectInArrivalOrder ==
    /\ mainPc = "collect"
    /\ resultsCh # <<>>
    /\ ordered' = [ordered EXCEPT
                      ![Cardinality({k \in 1..Len(ordered) : ordered[k].idx # 0}) + 1] =
                          Head(resultsCh)]
    /\ resultsCh' = Tail(resultsCh)
    /\ UNCHANGED <<uvars, xvars, cancelSeen>>
    /\ UNCHANGED <<peers, ctxCancelled, mainPc, spawnIdx, gpc, res, sem,
                   wg, mu, configs, chClosed, closerPc, statIdx, stats, printed,
                   ret, reqCount>>

Collect ==
    /\ mainPc = "collect"
    /\ resultsCh # <<>>
    /\ ordered' = [ordered EXCEPT ![Head(resultsCh).idx] = Head(resultsCh)]
    /\ resultsCh' = Tail(resultsCh)
    /\ UNCHANGED <<uvars, xvars, cancelSeen>>
    /\ UNCHANGED <<peers, ctxCancelled, mainPc, spawnIdx, gpc, res, sem,
                   wg, mu, configs, chClosed, closerPc, statIdx, stats, printed,
                   ret, reqCount>>

\* The range loop ends when the channel is closed and drained;
\* stats.Total = len(peers).
CollectEnd ==
    /\ mainPc = "collect"
    /\ resultsCh = <<>>
    /\ chClosed
    /\ mainPc' = "stats"
    /\ statIdx' = 1
    /\ stats' = [ZeroStats EXCEPT !.Total = N]
    /\ UNCHANGED <<uvars, xvars, cancelSeen>>
    /\ UNCHANGED <<peers, ctxCancelled, spawnIdx, gpc, res, sem, wg, mu,
                   configs, resultsCh, chClosed, closerPc, ordered, printed, ret,
                   reqCount>>

(***************************************************************************)
(* The statistics loop over ordered, one report line per element.          *)
(***************************************************************************)
\* Mutant: zero is tested before failed.
ClassifyZeroFirst(r) ==
    IF r.zero THEN "--" ELSE IF r.failed THEN "ERR" ELSE "OK"

Classify(r) ==
    IF r.failed THEN "ERR" ELSE IF r.zero THEN "--" ELSE "OK"

Count(s, r) ==
    CASE Classify(r) = "ERR" -> [s EXCEPT !.Failed = @ + 1]
      [] Classify(r) = "--"  -> [s EXCEPT !.Standard = @ + 1]
      [] OTHER               -> [s EXCEPT !.WithConfig = @ + 1]

StatStep ==
    /\ mainPc = "stats"
    /\ statIdx <= N
    /\ stats' = Count(stats, ordered[statIdx])
    /\ printed' = Append(printed, [tag |-> Classify(ordered[statIdx]),
                                   peer |-> IF ordered[statIdx].idx = 0 THEN 0
                                            ELSE peers[ordered[statIdx].idx]])
    /\ statIdx' = statIdx + 1
    /\ UNCHANGED <<uvars, xvars, cancelSeen>>
    /\ UNCHANGED <<peers, ctxCancelled, mainPc, spawnIdx, gpc, res, sem,
                   wg, mu, configs, resultsCh, chClosed, closerPc, ordered, ret,
                   reqCount>>

\* Mutant: a failed peer makes the pass return an error.
ReturnPassFailFast ==
    /\ mainPc = "stats"
    /\ statIdx > Len(peers)
    /\ ret' = [returned |-> TRUE, configs |-> configs, stats |-> stats,
               err |-> IF stats.Failed > 0 THEN "failed" ELSE "nil"]
    /\ mainPc' = "done"
    /\ UNCHANGED <<uvars, xvars, cancelSeen>>
    /\ UNCHANGED <<peers, ctxCancelled, spawnIdx, gpc, res, sem, wg, mu,
                   configs, resultsCh, chClosed, closerPc, ordered, statIdx,
                   stats, printed, reqCount>>

\* return configs, stats, nil
ReturnPass ==
    /\ mainPc = "stats"
    /\ statIdx > N
    /\ ret' = [returned |-> TRUE, configs |-> configs, stats |-> stats, err |-> "nil"]
    /\ mainPc' = "done"
    /\ UNCHANGED <<uvars, xvars, cancelSeen>>
    /\ UNCHANGED <<peers, ctxCancelled, spawnIdx, gpc, res, sem, wg, mu,
                   configs, resultsCh, chClosed, closerPc, ordered, statIdx,
                   stats, printed, reqCount>>

(***************************************************************************)
(* The caller cancels ctx at any moment of the pass.                       *)
(***************************************************************************)
CancelCtx ==
    /\ ~ctxCancelled
    /\ mainPc # "done"
    /\ ctxCancelled' = TRUE
    /\ UNCHANGED <<uvars, xvars, cancelSeen>>
    /\ UNCHANGED <<peers, mainPc, spawnIdx, gpc, res, sem, wg, mu,
                   configs, resultsCh, chClosed, closerPc, ordered, statIdx,
                   stats, printed, ret, reqCount>>

\* The steps of the pass itself.
DProgram ==
    \/ Spawn
    \/ SpawnCloser
    \/ \E i \in Idx : Acquire(i)
    \/ \E i \in Idx : Return(i)
    \/ \E i \in Idx : Lock(i)
    \/ \E i \in Idx : AppendUnlock(i)
    \/ \E i \in Idx : Send(i)
    \/ \E i \in Idx : Release(i)
    \/ \E i \in Idx : Done(i)
    \/ CloseResults
    \/ Collect
    \/ CollectEnd
    \/ StatStep
    \/ ReturnPass

DNext == DProgram \/ CancelCtx

\* The pass is not running (the state of the other specifications).
DIdle ==
    /\ peers = <<>>
    /\ ctxCancelled = FALSE
    /\ mainPc = "idle"
    /\ spawnIdx = 0
    /\ gpc = <<>>
    /\ res = <<>>
    /\ sem = 0
    /\ wg = 0
    /\ mu = 0
    /\ configs = <<>>
    /\ resultsCh = <<>>
    /\ chClosed = FALSE
    /\ closerPc = "none"
    /\ ordered = <<>>
    /\ statIdx = 0
    /\ stats = ZeroStats
    /\ printed = <<>>
    /\ ret = NoReturn
    /\ reqCount = <<>>
    /\ cancelSeen = <<>>

(***************************************************************************)
(* Config.ToUAPI (wgengine/wgcfg/writer.go).                               *)
(***************************************************************************)
\* The zero key.NodePublic / key.NodePrivate.
ZeroKey == ""

\* key.UntypedHexString: the key rendered in hexadecimal, one string per key.
UntypedHexString(k) == "hex:" \o k

\* strconv.FormatUint(uint64(v), 10)
FormatUint(v) == ToString(v)

\* uint16(v) of an int v.
Uint16 == 65536

ToUint16(v) == v % Uint16

\* uint32(v) of an int v.  The knob values explored are in 0..2^31-1, where
\* the conversion keeps the value (2^32 is beyond the checker's integers).
ToUint32(v) == v

Line(key, value) == <<key, value>>

\* Mutant: set keeps writing after a rejected write (the first error is kept).
setKeepsWriting(st, line) ==
    LET n == Len(st.calls) + 1 IN
    IF n \in wfails
    THEN [calls |-> Append(st.calls, line), sink |-> st.sink,
          err |-> IF st.err # 0 THEN st.err ELSE n]
    ELSE [calls |-> Append(st.calls, line), sink |-> Append(st.sink, line), err |-> st.err]

\* Mutant: set has no stickyErr guard at all, so a later error replaces the
\* first one.
setLastError(st, line) ==
    LET n == Len(st.calls) + 1 IN
    IF n \in wfails
    THEN [calls |-> Append(st.calls, line), sink |-> st.sink, err |-> n]
    ELSE [calls |-> Append(st.calls, line), sink |-> Append(st.sink, line), err |-> st.err]

\* The closure set: nothing is written once stickyErr is set; a rejected
\* write sets it.  st is [calls, sink, err].
set(st, line) ==
    IF st.err # 0
    THEN st
    ELSE LET n == Len(st.calls) + 1 IN
         IF n \in wfails
         THEN [calls |-> Append(st.calls, line), sink |-> st.sink, err |-> n]
         ELSE [calls |-> Append(st.calls, line), sink |-> Append(st.sink, line), err |-> 0]

RECURSIVE setAll(_, _)
setAll(st, lines) ==
    IF lines = <<>> THEN st ELSE setAll(set(st, Head(lines)), Tail(lines))

\* Mutant: the environment knob wins over the stored value.
ResolveUint16EnvFirst(stored, knob) == IF ToUint16(knob) # 0 THEN ToUint16(knob) ELSE stored

\* jc := cfg.AmneziaJC; if jc == 0 { jc = uint16(amneziaJC()) }
ResolveUint16(stored, knob) == IF stored = 0 THEN ToUint16(knob) ELSE stored

\* Mutant: a zero value is written too.
Uint16DirectiveAlways(key, v) == <<Line(key, FormatUint(v))>>

\* if jc > 0 { setUint16("jc", jc) }
Uint16Directive(key, v) == IF v > 0 THEN <<Line(key, FormatUint(v))>> ELSE <<>>

\* i1 := cfg.AmneziaI1; if i1 == "" { i1 = amneziaI1() }
ResolveString(stored, knob) == IF stored = "" THEN knob ELSE stored

\* if i1 != "" { set("i1", i1) }
StringDirective(key, v) == IF v # "" THEN <<Line(key, v)>> ELSE <<>>

\* h1 := cfg.AmneziaH1; if h1.Min == 0 && h1.Max == 0 { h1Val := uint32(amneziaH1()) ... }
ResolveHeader(stored, knob) ==
    IF stored.Min = 0 /\ stored.Max = 0
    THEN IF ToUint32(knob) > 0
         THEN MagicHeaderRange(ToUint32(knob), ToUint32(knob))
         ELSE stored
    ELSE stored

\* setMagicHeaderRange
FormatMagicHeaderRange(value) ==
    IF value.Min = value.Max
    THEN FormatUint(value.Min)
    ELSE FormatUint(value.Min) \o "-" \o FormatUint(value.Max)

\* if h1.Min > 0 || h1.Max > 0 { setMagicHeaderRange("h1", h1) }
HeaderDirective(key, h) ==
    IF h.Min > 0 \/ h.Max > 0 THEN <<Line(key, FormatMagicHeaderRange(h))>> ELSE <<>>

\* The directives of the device block, in the order of the code.
AmneziaDirectives(a, env) ==
    Uint16Directive("jc", ResolveUint16(a.JC, env.JC))
    \o Uint16Directive("jmin", ResolveUint16(a.JMin, env.JMin))
    \o Uint16Directive("jmax", ResolveUint16(a.JMax, env.JMax))
    \o Uint16Directive("s1", ResolveUint16(a.S1, env.S1))
    \o Uint16Directive("s2", ResolveUint16(a.S2, env.S2))
    \o Uint16Directive("s3", ResolveUint16(a.S3, env.S3))
    \o Uint16Directive("s4", ResolveUint16(a.S4, env.S4))
    \o StringDirective("i1", ResolveString(a.I1, env.I1))
    \o StringDirective("i2", ResolveString(a.I2, env.I2))
    \o StringDirective("i3", ResolveString(a.I3, env.I3))
    \o StringDirective("i4", ResolveString(a.I4, env.I4))
    \o StringDirective("i5", ResolveString(a.I5, env.I5))
    \o HeaderDirective("h1", ResolveHeader(a.H1, env.H1))
    \o HeaderDirective("h2", ResolveHeader(a.H2, env.H2))
    \o HeaderDirective("h3", ResolveHeader(a.H3, env.H3))
    \o HeaderDirective("h4", ResolveHeader(a.H4, env.H4))

\* Mutant: the device block is gated on any difference between the configs.
AnyFieldChanged(prev, cfg) == prev # cfg

\* if !prev.PrivateKey.Equal(cfg.PrivateKey)
PrivateKeyChanged(prev, cfg) == prev.PrivateKey # cfg.PrivateKey

DeviceDirectives(prev, cfg, env) ==
    IF PrivateKeyChanged(prev, cfg)
    THEN <<Line("private_key", UntypedHexString(cfg.PrivateKey))>>
            \o AmneziaDirectives(cfg.Amnezia, env)
    ELSE <<>>

\* The zero Peer, which a lookup in the map old yields for a missing key.
ZeroPeer == [PublicKey |-> ZeroKey, WGEndpoint |-> ZeroKey, AllowedIPs |-> <<>>,
             PersistentKeepalive |-> 0]

\* old[p.PublicKey] = p for each p of prev.Peers: the last entry of a key wins.
wasPresent(prev, k) == \E j \in 1..Len(prev.Peers) : prev.Peers[j].PublicKey = k

oldPeer(prev, k) ==
    IF wasPresent(prev, k)
    THEN LET j == CHOOSE j \in 1..Len(prev.Peers) :
                     /\ prev.Peers[j].PublicKey = k
                     /\ \A l \in (j + 1)..Len(prev.Peers) : prev.Peers[l].PublicKey # k
         IN prev.Peers[j]
    ELSE ZeroPeer

Elems(x) == {x[j] : j \in 1..Len(x)}

cidrsEqual(x, y) ==
    IF Len(x) # Len(y) THEN FALSE
    ELSE IF \A j \in 1..Len(x) : x[j] = y[j] THEN TRUE
    ELSE \A j \in 1..Len(y) : y[j] \in Elems(x)

\* Mutant: the endpoint is always set.
willSetEndpointAlways(prev, p) == TRUE

willSetEndpoint(prev, p) ==
    oldPeer(prev, p.PublicKey).WGEndpoint # p.PublicKey \/ ~wasPresent(prev, p.PublicKey)

\* Mutant: the allowed IPs are compared in order.
willChangeIPsExactOrder(prev, p) ==
    oldPeer(prev, p.PublicKey).AllowedIPs # p.AllowedIPs \/ ~wasPresent(prev, p.PublicKey)

willChangeIPs(prev, p) ==
    ~cidrsEqual(oldPeer(prev, p.PublicKey).AllowedIPs, p.AllowedIPs)
        \/ ~wasPresent(prev, p.PublicKey)

\* Mutant: the keepalive of a new peer is always set.
willChangeKeepaliveNewPeer(prev, p) ==
    oldPeer(prev, p.PublicKey).PersistentKeepalive # p.PersistentKeepalive
        \/ ~wasPresent(prev, p.PublicKey)

willChangeKeepalive(prev, p) ==
    oldPeer(prev, p.PublicKey).PersistentKeepalive # p.PersistentKeepalive

\* Mutant: unchanged peers are not skipped.
SkipPeerDisabled(prev, p) == FALSE

\* if !willSetEndpoint && !willChangeIPs && !willChangeKeepalive { continue }
SkipPeer(prev, p) ==
    ~willSetEndpoint(prev, p) /\ ~willChangeIPs(prev, p) /\ ~willChangeKeepalive(prev, p)

AllowedIPDirectives(ips) == [j \in 1..Len(ips) |-> Line("allowed_ip", ips[j])]

\* Mutant: the keepalive is set before the allowed IPs.
PeerDirectivesKeepaliveFirst(prev, p) ==
    IF SkipPeer(prev, p) THEN <<>>
    ELSE <<Line("public_key", UntypedHexString(p.PublicKey)), Line("protocol_version", "1")>>
         \o (IF willSetEndpoint(prev, p)
             THEN <<Line("endpoint", UntypedHexString(p.PublicKey))>> ELSE <<>>)
         \o (IF willChangeKeepalive(prev, p)
             THEN <<Line("persistent_keepalive_interval", FormatUint(p.PersistentKeepalive))>>
             ELSE <<>>)
         \o (IF willChangeIPs(prev, p)
             THEN <<Line("replace_allowed_ips", "true")>> \o AllowedIPDirectives(p.AllowedIPs)
             ELSE <<>>)

\* The directives of one iteration of the loop over cfg.Peers.
PeerDirectives(prev, p) ==
    IF SkipPeer(prev, p) THEN <<>>
    ELSE <<Line("public_key", UntypedHexString(p.PublicKey)), Line("protocol_version", "1")>>
         \o (IF willSetEndpoint(prev, p)
             THEN <<Line("endpoint", UntypedHexString(p.PublicKey))>> ELSE <<>>)
         \o (IF willChangeIPs(prev, p)
             THEN <<Line("replace_allowed_ips", "true")>> \o AllowedIPDirectives(p.AllowedIPs)
             ELSE <<>>)
         \o (IF willChangeKeepalive(prev, p)
             THEN <<Line("persistent_keepalive_interval", FormatUint(p.PersistentKeepalive))>>
             ELSE <<>>)

\* Mutant: the message is logged whenever the endpoint is set.
PeerLogNewPeers(prev, p) ==
    IF ~SkipPeer(prev, p) /\ willSetEndpoint(prev, p)
    THEN <<[msg |-> "[unexpected] endpoint changed", peer |-> p.PublicKey]>>
    ELSE <<>>

\* logf("[unexpected] endpoint changed from %s to %s", ...)
PeerLog(prev, p) ==
    IF ~SkipPeer(prev, p) /\ willSetEndpoint(prev, p) /\ wasPresent(prev, p.PublicKey)
    THEN <<[msg |-> "[unexpected] endpoint changed", peer |-> p.PublicKey]>>
    ELSE <<>>

\* Mutant: the keys of cfg.Peers are not deleted from old.
RemovedKeysAllOld(prev, cfg) == {prev.Peers[j].PublicKey : j \in 1..Len(prev.Peers)}

\* The keys left in old after delete(old, p.PublicKey) for each p of cfg.Peers.
RemovedKeys(prev, cfg) ==
    {prev.Peers[j].PublicKey : j \in 1..Len(prev.Peers)}
        \ {cfg.Peers[j].PublicKey : j \in 1..Len(cfg.Peers)}

\* Mutant: a removal is written twice.
RemoveDirectivesTwice(k) ==
    <<Line("public_key", UntypedHexString(k)), Line("remove", "true"),
      Line("public_key", UntypedHexString(k)), Line("remove", "true")>>

RemoveDirectives(k) == <<Line("public_key", UntypedHexString(k)), Line("remove", "true")>>

IOState == [calls |-> ucalls, sink |-> usink, err |-> stickyErr]

\* Device config.
UDevice ==
    /\ upc = "device"
    /\ LET st == setAll(IOState, DeviceDirectives(uprev, ucfg, uenv)) IN
          /\ ucalls' = st.calls
          /\ usink' = st.sink
          /\ stickyErr' = st.err
    /\ upc' = "peers"
    /\ upi' = 1
    /\ UNCHANGED <<dvars, xvars>>
    /\ UNCHANGED <<ucfg, uprev, uenv, wfails, uold, ulog, uret>>

\* Add/configure all new peers: one iteration of the loop.
UPeer ==
    /\ upc = "peers"
    /\ upi <= Len(ucfg.Peers)
    /\ LET st == setAll(IOState, PeerDirectives(uprev, ucfg.Peers[upi])) IN
          /\ ucalls' = st.calls
          /\ usink' = st.sink
          /\ stickyErr' = st.err
    /\ ulog' = ulog \o PeerLog(uprev, ucfg.Peers[upi])
    /\ upi' = upi + 1
    /\ UNCHANGED <<dvars, xvars>>
    /\ UNCHANGED <<ucfg, uprev, uenv, wfails, upc, uold, uret>>

\* for _, p := range cfg.Peers { delete(old, p.PublicKey) }
UDeleteKept ==
    /\ upc = "peers"
    /\ upi > Len(ucfg.Peers)
    /\ uold' = RemovedKeys(uprev, ucfg)
    /\ upc' = "remove"
    /\ UNCHANGED <<dvars, xvars>>
    /\ UNCHANGED <<ucfg, uprev, uenv, wfails, upi, ucalls, usink, stickyErr, ulog, uret>>

\* for _, p := range old { setPeer(p); set("remove", "true") }: a Go map is
\* ranged over in an unspecified order.
URemove ==
    /\ upc = "remove"
    /\ \E k \in uold :
          /\ LET st == setAll(IOState, RemoveDirectives(k)) IN
                /\ ucalls' = st.calls
                /\ usink' = st.sink
                /\ stickyErr' = st.err
          /\ uold' = uold \ {k}
    /\ UNCHANGED <<dvars, xvars>>
    /\ UNCHANGED <<ucfg, uprev, uenv, wfails, upc, upi, ulog, uret>>

\* if stickyErr != nil { stickyErr = fmt.Errorf("ToUAPI: %w", stickyErr) }
\* return stickyErr
UReturn ==
    /\ upc = "remove"
    /\ uold = {}
    /\ uret' = [returned |-> TRUE, wraps |-> stickyErr]
    /\ upc' = "done"
    /\ UNCHANGED <<dvars, xvars>>
    /\ UNCHANGED <<ucfg, uprev, uenv, wfails, upi, uold, ucalls, usink, stickyErr, ulog>>

UNext == UDevice \/ UPeer \/ UDeleteKept \/ URemove \/ UReturn

(***************************************************************************)
(* The inputs of ToUAPI that are explored.                                 *)
(***************************************************************************)
NodeKeys == <<"P", "Q", "R", "S">>

Prefix1 == "10.0.0.1/32"
Prefix2 == "10.0.0.2/32"

\* Peer attributes: WGEndpoint (the peer's own key, as the configuration
\* layer sets it, or unset), AllowedIPs and PersistentKeepalive.
PeerAttrs ==
    [ep : {"own", "unset"},
     ips : {<<>>, <<Prefix1>>, <<Prefix1, Prefix2>>, <<Prefix2, Prefix1>>},
     ka : {0, 25}]

\* Attributes of a peer as the configuration layer builds it.
BuiltPeerAttrs ==
    [ep : {"own"},
     ips : {<<Prefix1>>, <<Prefix1, Prefix2>>, <<Prefix2, Prefix1>>},
     ka : {0, 25}]

MkPeer(k, a) ==
    [PublicKey |-> k,
     WGEndpoint |-> IF a.ep = "own" THEN k ELSE ZeroKey,
     AllowedIPs |-> a.ips,
     PersistentKeepalive |-> a.ka]

\* The sequences of distinct keys drawn from K.
KeySeqs(K) ==
    {ks \in UNION {[1..n -> K] : n \in 0..Cardinality(K)} :
        \A i, j \in 1..Len(ks) : i # j => ks[i] # ks[j]}

\* The peer lists without duplicate PublicKey over the keys K.
PeerLists(K, attrs) ==
    UNION {{[j \in 1..Len(ks) |-> MkPeer(ks[j], as[j])] : as \in [1..Len(ks) -> attrs]} :
              ks \in KeySeqs(K)}

ZeroEnv ==
    [JC |-> 0, JMin |-> 0, JMax |-> 0, S1 |-> 0, S2 |-> 0, S3 |-> 0, S4 |-> 0,
     I1 |-> "", I2 |-> "", I3 |-> "", I4 |-> "", I5 |-> "",
     H1 |-> 0, H2 |-> 0, H3 |-> 0, H4 |-> 0]

Envs ==
    {ZeroEnv, [ZeroEnv EXCEPT !.JC = 7], [ZeroEnv EXCEPT !.H3 = 9, !.I2 = "<r 8>"],
     [ZeroEnv EXCEPT !.JC = 65543, !.JMin = 64, !.S1 = 65536]}

FullPrefs ==
    [JC |-> 4, JMin |-> 64, JMax |-> 96, S1 |-> 15, S2 |-> 16, S3 |-> 17, S4 |-> 18,
     I1 |-> "<b 0xc0>", I2 |-> "<c>", I3 |-> "<t>", I4 |-> "<r 4>", I5 |-> "<b 0x01>",
     H1 |-> MagicHeaderRange(5, 5), H2 |-> MagicHeaderRange(10, 20),
     H3 |-> MagicHeaderRange(30, 30), H4 |-> MagicHeaderRange(40, 50)]

AmneziaSamples ==
    {ZeroPrefs, JunkPrefs, FullPrefs,
     [ZeroPrefs EXCEPT !.H2 = MagicHeaderRange(10, 20)],
     [ZeroPrefs EXCEPT !.S3 = 17],
     [ZeroPrefs EXCEPT !.I4 = "<r 4>"]}

MkConfig(k, ps, a) == [PrivateKey |-> k, Peers |-> ps, Amnezia |-> a]

SinkFailures == {{}} \cup {{n} : n \in 1..MaxFailAt}

MkInput(prev, cfg, env, fails) == [prev |-> prev, cfg |-> cfg, env |-> env, fails |-> fails]

\* Attributes of the peers of a config that is reconciled against itself.
SelfPeerAttrs ==
    [ep : {"own", "unset"},
     ips : {<<>>, <<Prefix1, Prefix2>>},
     ka : {0, 25}]

\* A config reconciled against itself.
SameInputs ==
    {MkInput(MkConfig("a", ps, a), MkConfig("a", ps, a), ZeroEnv, f) :
        ps \in PeerLists({NodeKeys[j] : j \in 1..MaxConfigPeers}, SelfPeerAttrs),
        a \in {ZeroPrefs, JunkPrefs}, f \in SinkFailures}

\* Two peer sets, the identity key unchanged or changed.
PeerInputs ==
    {MkInput(MkConfig("a", pp, ZeroPrefs), MkConfig(k, cp, ZeroPrefs), ZeroEnv, {}) :
        pp \in PeerLists({"P", "Q"}, BuiltPeerAttrs),
        cp \in PeerLists({"P", "Q"}, BuiltPeerAttrs), k \in {"a"}}

\* One peer whose recorded endpoint may have drifted.
DriftInputs ==
    {MkInput(MkConfig("a", pp, ZeroPrefs), MkConfig("a", cp, ZeroPrefs), ZeroEnv, {}) :
        pp \in PeerLists({"P"}, PeerAttrs), cp \in PeerLists({"P"}, PeerAttrs)}

\* The device block: identity keys, obfuscation parameters, knobs and sink.
DeviceInputs ==
    {MkInput(MkConfig(pk, <<>>, pa), MkConfig(ck, <<>>, ca), env, f) :
        pk \in {ZeroKey, "a"}, ck \in {"a", "b"},
        pa \in {ZeroPrefs, JunkPrefs}, ca \in AmneziaSamples,
        env \in Envs, f \in SinkFailures}

\* The sink may reject several of its first MaxFailAt writes.
SinkFailureSets == SUBSET (1..MaxFailAt)

MixedPrevAttrs ==
    {[ep |-> "own", ips |-> <<Prefix1>>, ka |-> 0],
     [ep |-> "own", ips |-> <<Prefix1, Prefix2>>, ka |-> 25]}

MixedAttrs ==
    MixedPrevAttrs \cup {[ep |-> "own", ips |-> <<Prefix2, Prefix1>>, ka |-> 25]}

\* Peers kept, changed, added and removed at once, the identity key unchanged
\* or changed, under a sink that rejects some writes.
MixedInputs ==
    {MkInput(MkConfig("a", pp, ZeroPrefs), MkConfig(k, cp, JunkPrefs), ZeroEnv, f) :
        pp \in PeerLists({"P", "Q"}, MixedPrevAttrs),
        cp \in PeerLists({"P", "R"}, MixedAttrs),
        k \in {"a", "b"}, f \in SinkFailureSets}

DriftPrevAttrs ==
    {[ep |-> "unset", ips |-> <<Prefix1>>, ka |-> 0],
     [ep |-> "own", ips |-> <<Prefix1>>, ka |-> 0]}

DriftCfgAttrs ==
    {[ep |-> "own", ips |-> <<Prefix1>>, ka |-> 0],
     [ep |-> "own", ips |-> <<Prefix1, Prefix2>>, ka |-> 25]}

\* Peers whose recorded endpoint has drifted, next to peers that are kept,
\* added and removed.
DriftMixInputs ==
    {MkInput(MkConfig("a", pp, ZeroPrefs), MkConfig("a", cp, ZeroPrefs), ZeroEnv, f) :
        pp \in PeerLists({"P", "Q"}, DriftPrevAttrs),
        cp \in PeerLists({"P", "R"}, DriftCfgAttrs),
        f \in SinkFailures}

UInputs ==
    SameInputs \cup PeerInputs \cup DriftInputs \cup DeviceInputs \cup MixedInputs
        \cup DriftMixInputs

UInit ==
    /\ \E in \in UInputs :
          /\ uprev = in.prev
          /\ ucfg = in.cfg
          /\ uenv = in.env
          /\ wfails = in.fails
    /\ upc = "device"
    /\ upi = 0
    /\ uold = {}
    /\ ucalls = <<>>
    /\ usink = <<>>
    /\ stickyErr = 0
    /\ ulog = <<>>
    /\ uret = [returned |-> FALSE]

\* ToUAPI is not running (the state of the other specifications).
UIdle ==
    /\ uprev = MkConfig(ZeroKey, <<>>, ZeroPrefs)
    /\ ucfg = MkConfig(ZeroKey, <<>>, ZeroPrefs)
    /\ uenv = ZeroEnv
    /\ wfails = {}
    /\ upc = "idle"
    /\ upi = 0
    /\ uold = {}
    /\ ucalls = <<>>
    /\ usink = <<>>
    /\ stickyErr = 0
    /\ ulog = <<>>
    /\ uret = [returned |-> FALSE]

(***************************************************************************)
(* Applications of the pure functions isConfigZero and cidrsEqual.         *)
(***************************************************************************)
\* Largest length of a prefix slice handed to cidrsEqual.
MaxLen == 3

Prefix3 == "10.0.0.3/32"

\* The slices of at most MaxLen prefixes, repeated prefixes included.
PrefixSeqs == UNION {[1..n -> {Prefix1, Prefix2, Prefix3}] : n \in 0..MaxLen}

PrefsFields ==
    {"JC", "JMin", "JMax", "S1", "S2", "S3", "S4", "I1", "I2", "I3", "I4", "I5",
     "H1", "H2", "H3", "H4"}

\* The non-zero values of a field of ipn.AmneziaWGPrefs that are explored.
FieldValues(f) ==
    IF f \in {"I1", "I2", "I3", "I4", "I5"} THEN {"<b 0xc0>"}
    ELSE IF f \in {"H1", "H2", "H3", "H4"}
         THEN {MagicHeaderRange(5, 0), MagicHeaderRange(0, 5), MagicHeaderRange(5, 9)}
         ELSE {1, 65535}

\* The parameter sets that differ from the zero value in at most two fields.
PrefsSamples ==
    {[[ZeroPrefs EXCEPT ![f] = v] EXCEPT ![g] = w] :
        <<f, v, g, w>> \in UNION {UNION {{<<f, v, g, w>> : v \in FieldValues(f) \cup {ZeroPrefs[f]},
                                                      w \in FieldValues(g) \cup {ZeroPrefs[g]}} :
                                     g \in PrefsFields} : f \in PrefsFields}}

FInit ==
    /\ \/ /\ fkind = "isConfigZero"
          /\ fcfg \in PrefsSamples
          /\ fx = <<>>
          /\ fy = <<>>
       \/ /\ fkind = "cidrsEqual"
          /\ fcfg = ZeroPrefs
          /\ fx \in PrefixSeqs
          /\ fy \in PrefixSeqs
    /\ fout = [returned |-> FALSE]

ApplyIsConfigZero ==
    /\ fkind = "isConfigZero"
    /\ ~fout.returned
    /\ fout' = [returned |-> TRUE, zero |-> isConfigZero(fcfg)]
    /\ UNCHANGED <<dvars, uvars, svars, pvars>>
    /\ UNCHANGED <<fkind, fcfg, fx, fy>>

\* cidrsEqual(x, y) and cidrsEqual(y, x).
ApplyCidrsEqual ==
    /\ fkind = "cidrsEqual"
    /\ ~fout.returned
    /\ fout' = [returned |-> TRUE, xy |-> cidrsEqual(fx, fy), yx |-> cidrsEqual(fy, fx)]
    /\ UNCHANGED <<dvars, uvars, svars, pvars>>
    /\ UNCHANGED <<fkind, fcfg, fx, fy>>

FNext == ApplyIsConfigZero \/ ApplyCidrsEqual

\* No pure function is being applied (the state of the other specifications).
FIdle ==
    /\ fkind = "idle"
    /\ fcfg = ZeroPrefs
    /\ fx = <<>>
    /\ fy = <<>>
    /\ fout = [returned |-> FALSE]

(***************************************************************************)
(* The interactive sync: discovery once, then selection, confirmation and  *)
(* apply (runAmneziaWGSync, handleInteractiveConfigSync).                  *)
(***************************************************************************)
MaxCands == 2
MaxReads == 5

EOF == "<EOF>"

\* The lines the operator types; EOF stands for the end of stdin.
Lines == {EOF, "", "0", "1", " 2 ", "3", "x", "y", "YES", "n", "No", "maybe"}

\* strings.TrimSpace and strings.ToLower on the lines above.
TrimSpace(t) == IF t = " 2 " THEN "2" ELSE t
ToLower(t) ==
    IF t = "YES" THEN "yes" ELSE IF t = "No" THEN "no" ELSE IF t = "Rand" THEN "rand" ELSE t

\* strconv.Atoi on the trimmed lines above: a decimal numeral or an error.
Atoi(t) ==
    IF \E n \in 0..9 : ToString(n) = t
    THEN [err |-> FALSE, val |-> CHOOSE n \in 0..9 : ToString(n) = t]
    ELSE [err |-> TRUE, val |-> 0]

\* The candidates a discovery pass returns.
Candidates ==
    {[PeerName |-> "alpha", PeerIP |-> "100.64.0.1", Config |-> JunkPrefs],
     [PeerName |-> "beta", PeerIP |-> "100.64.0.2", Config |-> FullPrefs]}
FoundLists == UNION {[1..n -> Candidates] : n \in 0..MaxCands}

\* The preferences of the node: the AmneziaWG part and two of the others.
OtherPrefs == {"WantRunning", "Hostname"}
ZeroIpnPrefs == [AmneziaWG |-> ZeroPrefs, WantRunning |-> FALSE, Hostname |-> ""]
NodePrefs == {[AmneziaWG |-> a, WantRunning |-> TRUE, Hostname |-> "node"] :
                a \in {ZeroPrefs, [ZeroPrefs EXCEPT !.JC = 9, !.S1 = 15]}}

\* Mutant: the edit marks the host name as set, too.
createMaskedPrefsWithHostname(config) ==
    [Prefs |-> [ZeroIpnPrefs EXCEPT !.AmneziaWG = config], Set |-> {"AmneziaWG", "Hostname"}]

\* &ipn.MaskedPrefs{Prefs: ipn.Prefs{AmneziaWG: config}, AmneziaWGSet: true}
createMaskedPrefs(config) ==
    [Prefs |-> [ZeroIpnPrefs EXCEPT !.AmneziaWG = config], Set |-> {"AmneziaWG"}]

\* localClient.EditPrefs: the fields marked as set are taken from the edit.
EditPrefs(prefs, mp) ==
    [f \in DOMAIN prefs |-> IF f \in mp.Set THEN mp.Prefs[f] ELSE prefs[f]]

\* The lines "i. Sync from name (ip)" of the selection list.
Listing(cands) == [i \in 1..Len(cands) |-> <<i, cands[i].PeerName, cands[i].PeerIP>>]

\* No line has been read yet.
NoLine == [prompt |-> "none", text |-> "", sel |-> 0]

SInit ==
    /\ spc = "start"
    /\ scands = <<>>
    /\ ssel = 0
    /\ sprefs \in NodePrefs
    /\ sedits = <<>>
    /\ sdisc = 0
    /\ sshown = <<>>
    /\ sreads = 0
    /\ snos = 0
    /\ smsg = ""
    /\ sret = "none"
    /\ slast = NoLine

\* return nil / return an error
SReturn(r) ==
    /\ spc' = "done"
    /\ sret' = r

\* runAmneziaWGSync up to the first prompt: status, online peers, one
\* discovery pass, the list of candidates.
RunSync ==
    /\ spc = "start"
    /\ \E o \in {"statusError", "noPeers", "found"} :
          CASE o = "statusError" ->
                  /\ SReturn("failed to get status")
                  /\ UNCHANGED <<scands, sdisc, sshown, smsg>>
            [] o = "noPeers" ->
                  /\ SReturn("nil")
                  /\ smsg' = "No online peers found."
                  /\ UNCHANGED <<scands, sdisc, sshown>>
            [] o = "found" ->
                  \E f \in FoundLists :
                      /\ sdisc' = sdisc + 1
                      /\ scands' = f
                      /\ IF Len(f) = 0
                         THEN /\ SReturn("nil")
                              /\ smsg' = "No AWG configurations found on online peers."
                              /\ UNCHANGED sshown
                         ELSE /\ spc' = "select"
                              /\ sshown' = Listing(f)
                              /\ smsg' = "Select a configuration to sync to this node:"
                              /\ UNCHANGED sret
    /\ UNCHANGED <<ssel, sprefs, sedits, sreads, snos, slast>>
    /\ UNCHANGED <<dvars, uvars, fvars, pvars>>

\* Mutant: a cancelled workflow still asks for the restart.
CancelledThenRestart ==
    /\ smsg' = "Cancelled."
    /\ spc' = "restart"
    /\ UNCHANGED sret

Cancelled ==
    /\ smsg' = "Cancelled."
    /\ SReturn("nil")

\* Mutant: going back to the list runs discovery again.
ReturnToListRediscover ==
    /\ spc' = "select"
    /\ smsg' = "Not applied. Returning to list."
    /\ snos' = snos + 1
    /\ sdisc' = sdisc + 1
    /\ \E f \in FoundLists \ {<<>>} :
          /\ scands' = f
          /\ sshown' = Listing(f)
    /\ UNCHANGED <<ssel, sprefs, sedits, sret>>

\* case "n", "no": continue selectionLoop, which prints the list again.
ReturnToList ==
    /\ spc' = "select"
    /\ smsg' = "Not applied. Returning to list."
    /\ snos' = snos + 1
    /\ sshown' = Listing(scands)
    /\ UNCHANGED <<scands, ssel, sprefs, sedits, sdisc, sret>>

\* Mutant: the choice is not compared with the number of candidates.
SelectNoUpperBound(t) ==
    /\ spc = "select"
    /\ sreads < MaxReads
    /\ sreads' = sreads + 1
    /\ slast' = [prompt |-> spc, text |-> t, sel |-> ssel]
    /\ LET choice == TrimSpace(t)
           a == Atoi(choice)
       IN  IF t = EOF \/ choice = "" \/ choice = "0"
           THEN /\ Cancelled
                /\ UNCHANGED <<ssel, sshown>>
           ELSE IF a.err \/ a.val < 1
           THEN /\ smsg' = "Invalid choice"
                /\ sshown' = Listing(scands)
                /\ UNCHANGED <<spc, ssel, sret>>
           ELSE /\ ssel' = a.val
                /\ spc' = "confirm"
                /\ smsg' = "Apply this configuration?"
                /\ UNCHANGED <<sshown, sret>>
    /\ UNCHANGED <<scands, sprefs, sedits, sdisc, snos>>
    /\ UNCHANGED <<dvars, uvars, fvars, pvars>>

\* The choice prompt: one line is read and handled.
Select(t) ==
    /\ spc = "select"
    /\ sreads < MaxReads
    /\ sreads' = sreads + 1
    /\ slast' = [prompt |-> spc, text |-> t, sel |-> ssel]
    /\ LET choice == TrimSpace(t)
           a == Atoi(choice)
       IN  IF t = EOF \/ choice = "" \/ choice = "0"
           THEN /\ Cancelled
                /\ UNCHANGED <<ssel, sshown>>
           ELSE IF a.err \/ a.val < 1 \/ a.val > Len(scands)
           THEN /\ smsg' = "Invalid choice"
                /\ sshown' = Listing(scands)
                /\ UNCHANGED <<spc, ssel, sret>>
           ELSE /\ ssel' = a.val
                /\ spc' = "confirm"
                /\ smsg' = "Apply this configuration?"
                /\ UNCHANGED <<sshown, sret>>
    /\ UNCHANGED <<scands, sprefs, sedits, sdisc, snos>>
    /\ UNCHANGED <<dvars, uvars, fvars, pvars>>

\* Mutant: the parameters of the first candidate are applied.
applyFirstCandidate(config, ok) ==
    LET maskedPrefs == createMaskedPrefs(scands[1].Config) IN
    /\ sedits' = Append(sedits, maskedPrefs)
    /\ sprefs' = IF ok THEN EditPrefs(sprefs, maskedPrefs) ELSE sprefs

\* applyAmneziaWGConfig: the edit is handed to EditPrefs, which applies it
\* or fails.
applyAmneziaWGConfig(config, ok) ==
    LET maskedPrefs == createMaskedPrefs(config) IN
    /\ sedits' = Append(sedits, maskedPrefs)
    /\ sprefs' = IF ok THEN EditPrefs(sprefs, maskedPrefs) ELSE sprefs

\* The confirmation prompt: one line is read and handled.
Confirm(t) ==
    /\ spc = "confirm"
    /\ sreads < MaxReads
    /\ sreads' = sreads + 1
    /\ slast' = [prompt |-> spc, text |-> t, sel |-> ssel]
    /\ LET ansRaw == IF TrimSpace(t) = "" THEN "y" ELSE TrimSpace(t)
           ans == ToLower(ansRaw)
       IN  IF t = EOF
           THEN /\ Cancelled
                /\ UNCHANGED <<scands, ssel, sprefs, sedits, sdisc, sshown, snos>>
           ELSE IF ans \in {"y", "yes"}
           THEN /\ \E ok \in BOOLEAN :
                      /\ applyAmneziaWGConfig(scands[ssel].Config, ok)
                      /\ IF ok
                         THEN /\ smsg' = "AWG configuration synced"
                              /\ spc' = "restart"
                              /\ UNCHANGED sret
                         ELSE /\ SReturn("failed to apply configuration")
                              /\ UNCHANGED smsg
                /\ UNCHANGED <<scands, ssel, sdisc, sshown, snos>>
           ELSE IF ans \in {"n", "no"}
           THEN ReturnToList
           ELSE /\ smsg' = "Please answer Y (apply) or N (return to list)."
                /\ UNCHANGED <<spc, scands, ssel, sprefs, sedits, sdisc, sshown, snos, sret>>
    /\ UNCHANGED <<dvars, uvars, fvars, pvars>>

\* restartTailscaledWithPrompt: one line is read; the restart succeeds or
\* fails.
Restart(t) ==
    /\ spc = "restart"
    /\ sreads < MaxReads
    /\ sreads' = sreads + 1
    /\ slast' = [prompt |-> spc, text |-> t, sel |-> ssel]
    /\ LET response == TrimSpace(ToLower(t)) IN
       IF t = EOF
       THEN /\ SReturn("nil")
            /\ UNCHANGED smsg
       ELSE IF response \in {"", "y", "yes"}
       THEN \E ok \in BOOLEAN :
                IF ok
                THEN /\ smsg' = "tailscaled restarted successfully."
                     /\ SReturn("nil")
                ELSE /\ smsg' = "Restarting tailscaled..."
                     /\ SReturn("failed to restart tailscaled")
       ELSE /\ smsg' = "Skipped restart."
            /\ SReturn("nil")
    /\ UNCHANGED <<scands, ssel, sprefs, sedits, sdisc, sshown, snos>>
    /\ UNCHANGED <<dvars, uvars, fvars, pvars>>

SNext ==
    \/ RunSync
    \/ \E t \in Lines : Select(t)
    \/ \E t \in Lines : Confirm(t)
    \/ \E t \in Lines : Restart(t)

SIdle ==
    /\ spc = "idle"
    /\ scands = <<>>
    /\ ssel = 0
    /\ sprefs = ZeroIpnPrefs
    /\ sedits = <<>>
    /\ sdisc = 0
    /\ sshown = <<>>
    /\ sreads = 0
    /\ snos = 0
    /\ smsg = ""
    /\ sret = "none"
    /\ slast = NoLine

(***************************************************************************)
(* The prompts of the manual configuration mode: junk, prefix and header   *)
(* parameters (promptInteractiveConfig and the functions it calls).  A     *)
(* 32-bit value is a pair <<high, low>> of 16-bit halves.                  *)
(***************************************************************************)
U32(hi, lo) == <<hi, lo>>
U32Less(a, b) == a[1] < b[1] \/ (a[1] = b[1] /\ a[2] < b[2])
MarkerUint16 == 65535
MarkerUint32 == U32(65535, 65535)

\* The lines typed at the 16-bit prompts and at the header prompts.
Lines16 ==
    {EOF, "", "0", "3", "11", "63", "65", "1025", "65535", "65536", "abc", "random", "Rand"}
Lines32 == {EOF, "", "0", "3", "7", "abc", "random", "4294967295", "4294967296"}

\* The numbers below 2^31 whose numerals are typed.
TypedNumbers == {0, 3, 7, 11, 63, 65, 1025, 65535, 65536}

\* strconv.ParseUint(text, 10, bitSize) on the lines above.
ParseUint(text, bitSize) ==
    IF \E n \in TypedNumbers : ToString(n) = text
    THEN LET n == CHOOSE m \in TypedNumbers : ToString(m) = text IN
         IF bitSize = 16 /\ n > 65535
         THEN [err |-> "range", val |-> U32(0, 65535)]
         ELSE [err |-> "nil", val |-> U32(n \div 65536, n % 65536)]
    ELSE IF text = "4294967295"
    THEN IF bitSize = 16
         THEN [err |-> "range", val |-> U32(0, 65535)]
         ELSE [err |-> "nil", val |-> U32(65535, 65535)]
    ELSE IF text = "4294967296"
    THEN [err |-> "range", val |-> IF bitSize = 16 THEN U32(0, 65535) ELSE U32(65535, 65535)]
    ELSE [err |-> "syntax", val |-> U32(0, 0)]

\* strings.Contains(prompt, sub) for the prompts of promptUint16WithRange.
Contains(prompt, sub) ==
    \/ prompt = "Junk packet count" /\ sub = "Junk packet count"
    \/ prompt \in {"Min junk packet size (bytes)", "Max junk packet size (bytes)"}
          /\ sub = "junk packet size"

\* The value returned and the messages printed.
promptUint16WithRange(prompt, t, current) ==
    LET text == TrimSpace(t)
        p == ParseUint(text, 16)
        result == p.val[2]
    IN  IF t = EOF \/ text = "" THEN [val |-> current, msgs |-> {}]
        ELSE IF p.err # "nil" THEN [val |-> current, msgs |-> {"Invalid value"}]
        ELSE [val |-> result,
              msgs |-> IF \/ Contains(prompt, "Junk packet count") /\ result > 10
                          \/ Contains(prompt, "junk packet size")
                                /\ result > 0 /\ (result < 64 \/ result > 1024)
                          \/ Contains(prompt, "prefix length") /\ result > 64
                       THEN {"Warning"} ELSE {}]

promptUint16ForPrefixField(t, current) ==
    LET text == TrimSpace(t)
        p == ParseUint(text, 16)
        result == p.val[2]
    IN  IF t = EOF \/ text = "" THEN [val |-> current, msgs |-> {}]
        ELSE IF ToLower(text) = "random" \/ ToLower(text) = "rand"
        THEN [val |-> MarkerUint16, msgs |-> {}]
        ELSE IF p.err = "nil"
        THEN [val |-> result, msgs |-> IF result > 64 THEN {"Warning"} ELSE {}]
        ELSE [val |-> current, msgs |-> {"Invalid value"}]

promptUint32ForHeaderField(t, current) ==
    LET text == TrimSpace(t)
        p == ParseUint(text, 32)
    IN  IF t = EOF \/ text = "" THEN [val |-> current, msgs |-> {}]
        ELSE IF ToLower(text) = "random" \/ ToLower(text) = "rand"
        THEN [val |-> MarkerUint32, msgs |-> {}]
        ELSE IF p.err = "nil" THEN [val |-> p.val, msgs |-> {}]
        ELSE [val |-> current, msgs |-> {"Invalid value"}]

\* time.Now().UnixNano() as read by generateAllRandomPrefixFields.
BaseTimes == {0, 1000, 123456789}

generateAllRandomPrefixFields(config, baseTime) ==
    [config EXCEPT !.S1 = (baseTime % 7) + 1,
                   !.S2 = ((baseTime \div 256) % 7) + 1,
                   !.S3 = ((baseTime \div 65536) % 7) + 1,
                   !.S4 = ((baseTime \div 16777216) % 7) + 1]

\* time.Now().UnixNano() as read by generateAllRandomHeaderFields: the
\* nanoseconds since 1970, an int64 that is not negative, as four 16-bit
\* limbs with the most significant first.
Seeds ==
    {<<0, 0, 0, 0>>, <<0, 0, 4660, 22136>>, <<0, 0, 3531, 43398>>,
     <<6372, 63946, 60816, 17679>>, <<7263, 25333, 61232, 48839>>,
     <<15058, 23114, 33443, 7208>>, <<32767, 65535, 65535, 65535>>}

\* const segmentSize = totalRange / 4 with totalRange = uint64(0xFFFFFFFF - 4),
\* baseValue = uint64(5).  A uint64 below 2^47 is a pair <<high, low>> whose
\* low part is 16 bits wide.
segmentSize == 1073741822
baseValue == 5

\* p + n on uint64, and the conversion uint32(p).
Add64(p, n) ==
    LET lo == p[2] + (n % 65536) IN <<p[1] + (n \div 65536) + (lo \div 65536), lo % 65536>>
Uint32Of(p) == U32(p[1] % 65536, p[2])

\* x ^ y on 16 bits, and seed ^ k for a 32-bit constant k.
RECURSIVE Xor16(_, _)
Xor16(x, y) ==
    IF x = 0 THEN y
    ELSE IF y = 0 THEN x
    ELSE 2 * Xor16(x \div 2, y \div 2) + ((x + y) % 2)
Xor64(seed, k) == <<seed[1], seed[2], Xor16(seed[3], k[1]), Xor16(seed[4], k[2])>>

\* v % m for an int64 v that is not negative and 0 < m < 2^30: the n low
\* bits of a limb are shifted into the remainder r, one bit at a time.
RECURSIVE ShiftIn(_, _, _, _)
ShiftIn(r, limb, n, m) ==
    IF n = 0 THEN r
    ELSE CHOOSE y \in {ShiftIn(x, limb, n - 1, m) :
                          x \in {(2 * r + ((limb \div (2 ^ (n - 1))) % 2)) % m}} : TRUE
Mod64(v, m) ==
    CHOOSE r \in {ShiftIn(r3, v[4], 16, m) :
                    r3 \in {ShiftIn(r2, v[3], 16, m) :
                              r2 \in {ShiftIn(r1, v[2], 16, m) :
                                        r1 \in {ShiftIn(0, v[1], 16, m)}}}} : TRUE

\* The constants the seed is combined with: 0x12345678 and 0x87654321 for
\* H1, 0xABCDEF00 and 0x00FEDCBA for H2, 0x13579BDF and 0xFDB97531 for H3,
\* 0x2468ACE0 and 0x0ECA8642 for H4.
HeaderXor ==
    <<[min |-> U32(4660, 22136), max |-> U32(34661, 17185)],
      [min |-> U32(43981, 61184), max |-> U32(254, 56506)],
      [min |-> U32(4951, 39903), max |-> U32(64953, 30001)],
      [min |-> U32(9320, 44256), max |-> U32(3786, 34370)]>>

\* h1Start = baseValue, hNStart = h(N-1)End + 1; hNEnd = hNStart +
\* segmentSize, h4End = baseValue + totalRange, totalRange being 4294967291.
RECURSIVE hStart(_), hEnd(_)
hStart(k) == IF k = 1 THEN U32(0, baseValue) ELSE Add64(hEnd(k - 1), 1)
hEnd(k) == IF k = 4 THEN Add64(U32(65535, 65531), baseValue) ELSE Add64(hStart(k), segmentSize)

\* hNMin := uint32(hNStart + uint64((seed^c) % int64(segmentSize/2)))
hMin(k, seed) ==
    Uint32Of(Add64(hStart(k), Mod64(Xor64(seed, HeaderXor[k].min), segmentSize \div 2)))

\* Mutant: the width of the range is drawn from the whole segment size.
hMaxWholeSegment(k, seed) ==
    Uint32Of(Add64(hMin(k, seed), Mod64(Xor64(seed, HeaderXor[k].max), segmentSize)))

\* hNMax := hNMin + uint32((seed^c) % (int64(hNEnd) - int64(hNMin)))
hMax(k, seed) ==
    LET end == hEnd(k)
        min == hMin(k, seed)
    IN  Uint32Of(Add64(min, Mod64(Xor64(seed, HeaderXor[k].max),
                                  (end[1] - min[1]) * 65536 + (end[2] - min[2]))))

\* The ranges h1Min..h4Max for each seed, computed once.
GeneratedRanges ==
    [seed \in Seeds |-> [k \in 1..4 |-> [Min |-> hMin(k, seed), Max |-> hMax(k, seed)]]]

generateAllRandomHeaderFields(config, seed) ==
    LET h == GeneratedRanges[seed] IN
    [config EXCEPT !.H1 = h[1], !.H2 = h[2], !.H3 = h[3], !.H4 = h[4]]

ZeroRange == [Min |-> U32(0, 0), Max |-> U32(0, 0)]
SName(k) == "S" \o ToString(k)
HName(k) == "H" \o ToString(k)

\* curPrefs.AmneziaWG when the prompts start.
CurrentConfigs ==
    {[JC |-> 0, JMin |-> 0, JMax |-> 0, S1 |-> 0, S2 |-> 0, S3 |-> 0, S4 |-> 0,
      H1 |-> ZeroRange, H2 |-> ZeroRange, H3 |-> ZeroRange, H4 |-> ZeroRange],
     [JC |-> 4, JMin |-> 64, JMax |-> 96, S1 |-> 15, S2 |-> 16, S3 |-> 17, S4 |-> 18,
      H1 |-> [Min |-> U32(0, 5), Max |-> U32(0, 9)],
      H2 |-> [Min |-> U32(0, 20), Max |-> U32(0, 20)],
      H3 |-> [Min |-> U32(0, 30), Max |-> U32(1, 0)],
      H4 |-> [Min |-> U32(2, 0), Max |-> U32(2, 40)]]}

\* The junk section, the prefix section or the header section is run on
\* the current parameters.
PInit ==
    /\ ppos \in {"JC", "S1", "H1min"}
    /\ pcfg \in CurrentConfigs
    /\ pmin = U32(0, 0)
    /\ peof = FALSE
    /\ plast = [field |-> "none", text |-> ""]
    /\ pmsgs = {}

\* scanner.Scan() returns the line t; after the end of stdin it returns false
\* forever.
Scan(field, t) ==
    /\ peof => t = EOF
    /\ peof' = (t = EOF)
    /\ plast' = [field |-> field, text |-> t]

\* config.JC = promptUint16WithRange(...); JMin and JMax are asked for only
\* if JC > 0.
PromptJC(t) ==
    /\ ppos = "JC"
    /\ Scan("JC", t)
    /\ LET r == promptUint16WithRange("Junk packet count", t, pcfg.JC) IN
       /\ pmsgs' = r.msgs
       /\ IF r.val > 0
          THEN /\ pcfg' = [pcfg EXCEPT !.JC = r.val]
               /\ ppos' = "JMin"
          ELSE /\ pcfg' = [pcfg EXCEPT !.JC = r.val, !.JMin = 0, !.JMax = 0]
               /\ ppos' = "done"
    /\ UNCHANGED pmin
    /\ UNCHANGED <<dvars, uvars, fvars, svars>>

PromptJMin(t) ==
    /\ ppos = "JMin"
    /\ Scan("JMin", t)
    /\ LET r == promptUint16WithRange("Min junk packet size (bytes)", t, pcfg.JMin) IN
       /\ pmsgs' = r.msgs
       /\ pcfg' = [pcfg EXCEPT !.JMin = r.val]
    /\ ppos' = "JMax"
    /\ UNCHANGED pmin
    /\ UNCHANGED <<dvars, uvars, fvars, svars>>

PromptJMax(t) ==
    /\ ppos = "JMax"
    /\ Scan("JMax", t)
    /\ LET r == promptUint16WithRange("Max junk packet size (bytes)", t, pcfg.JMax) IN
       /\ pmsgs' = r.msgs
       /\ pcfg' = [pcfg EXCEPT !.JMax = r.val]
    /\ ppos' = "done"
    /\ UNCHANGED pmin
    /\ UNCHANGED <<dvars, uvars, fvars, svars>>

\* promptPrefixParameters: the prompt for S1, S2, S3 or S4.
PromptS(k, t) ==
    /\ ppos = SName(k)
    /\ Scan(SName(k), t)
    /\ LET r == promptUint16ForPrefixField(t, pcfg[SName(k)]) IN
       IF r.val = MarkerUint16
       THEN /\ \E baseTime \in BaseTimes :
                  pcfg' = generateAllRandomPrefixFields(pcfg, baseTime)
            /\ pmsgs' = r.msgs \cup {"Generating random values"}
            /\ ppos' = "done"
       ELSE IF k = 1 /\ r.val = 0
       THEN /\ pcfg' = [pcfg EXCEPT !.S1 = 0, !.S2 = 0, !.S3 = 0, !.S4 = 0]
            /\ pmsgs' = r.msgs \cup {"S1 disabled"}
            /\ ppos' = "done"
       ELSE /\ pcfg' = [pcfg EXCEPT ![SName(k)] = r.val]
            /\ pmsgs' = r.msgs
            /\ ppos' = IF k = 4 THEN "done" ELSE SName(k + 1)
    /\ UNCHANGED pmin
    /\ UNCHANGED <<dvars, uvars, fvars, svars>>

\* promptHeaderParameters: the prompt for HN-min.
PromptHMin(k, t) ==
    /\ ppos = HName(k) \o "min"
    /\ Scan(HName(k) \o "min", t)
    /\ LET r == promptUint32ForHeaderField(t, pcfg[HName(k)].Min) IN
       /\ pmin' = r.val
       /\ IF k = 1 /\ r.val = U32(0, 0)
          THEN /\ pcfg' = [pcfg EXCEPT !.H1 = ZeroRange, !.H2 = ZeroRange,
                                       !.H3 = ZeroRange, !.H4 = ZeroRange]
               /\ pmsgs' = r.msgs \cup {"H1-min disabled"}
               /\ ppos' = "done"
          ELSE IF r.val = MarkerUint32
          THEN /\ \E seed \in Seeds : pcfg' = generateAllRandomHeaderFields(pcfg, seed)
               /\ pmsgs' = r.msgs \cup {"Generating random values"}
               /\ ppos' = "done"
          ELSE /\ pmsgs' = r.msgs
               /\ ppos' = HName(k) \o "max"
               /\ UNCHANGED pcfg
    /\ UNCHANGED <<dvars, uvars, fvars, svars>>

\* promptHeaderParameters: the prompt for HN-max, and the range is stored.
PromptHMax(k, t) ==
    /\ ppos = HName(k) \o "max"
    /\ Scan(HName(k) \o "max", t)
    /\ LET r == promptUint32ForHeaderField(t, pcfg[HName(k)].Max) IN
       IF r.val = MarkerUint32
       THEN /\ \E seed \in Seeds : pcfg' = generateAllRandomHeaderFields(pcfg, seed)
            /\ pmsgs' = r.msgs \cup {"Generating random values"}
            /\ ppos' = "done"
       ELSE /\ pcfg' = [pcfg EXCEPT ![HName(k)] =
                           [Min |-> pmin, Max |-> IF U32Less(r.val, pmin) THEN pmin ELSE r.val]]
            /\ pmsgs' = r.msgs \cup (IF U32Less(r.val, pmin) THEN {"adjusted"} ELSE {})
            /\ ppos' = IF k = 4 THEN "done" ELSE HName(k + 1) \o "min"
    /\ UNCHANGED pmin
    /\ UNCHANGED <<dvars, uvars, fvars, svars>>

PNext ==
    \/ \E t \in Lines16 : PromptJC(t)
    \/ \E t \in Lines16 : PromptJMin(t)
    \/ \E t \in Lines16 : PromptJMax(t)
    \/ \E k \in 1..4, t \in Lines16 : PromptS(k, t)
    \/ \E k \in 1..4, t \in Lines32 : PromptHMin(k, t)
    \/ \E k \in 1..4, t \in Lines32 : PromptHMax(k, t)

PIdle ==
    /\ ppos = "idle"
    /\ pcfg = <<>>
    /\ pmin = U32(0, 0)
    /\ peof = FALSE
    /\ plast = [field |-> "none", text |-> ""]
    /\ pmsgs = {}

(***************************************************************************)
(* The specifications.                                                     *)
(***************************************************************************)
InitDiscovery == DInit /\ UIdle /\ FIdle /\ SIdle /\ PIdle

SpecDiscovery == InitDiscovery /\ [][DNext]_vars

\* The pass under a scheduler that lets it take a step whenever one is
\* possible; a request that is outstanding returns.
SpecDiscoveryFair == InitDiscovery /\ [][DNext]_vars /\ WF_vars(DProgram)

InitUAPI == UInit /\ DIdle /\ FIdle /\ SIdle /\ PIdle

SpecUAPI == InitUAPI /\ [][UNext]_vars

InitPure == FInit /\ DIdle /\ UIdle /\ SIdle /\ PIdle

SpecPure == InitPure /\ [][FNext]_vars

InitSync == SInit /\ DIdle /\ UIdle /\ FIdle /\ PIdle

SpecSync == InitSync /\ [][SNext]_vars

InitPrompt == PInit /\ DIdle /\ UIdle /\ FIdle /\ SIdle

SpecPrompt == InitPrompt /\ [][PNext]_vars

(***************************************************************************)
(* Properties of the discovery pass.                                       *)
(***************************************************************************)
Returned == mainPc = "done" /\ ret.returned

\* The peers whose request returned an error / no error.
FailedPeers == {i \in Idx : res[i].err # "nil"}
CustomPeers == {i \in Idx : res[i].err = "nil" /\ ~isConfigZero(res[i].cfg)}
StandardPeers == {i \in Idx : res[i].err = "nil" /\ isConfigZero(res[i].cfg)}

\* The positions of the returned list that name the i-th input peer.
EntriesOf(i) == {a \in 1..Len(ret.configs) : ret.configs[a].Peer = peers[i]}

\* The goroutines that hold an admission slot / whose request is outstanding.
Holding(i) == gpc[i] \in {"inflight", "lock", "append", "send", "release"}
Holders == {i \in Idx : Holding(i)}
InFlight == {i \in Idx : gpc[i] = "inflight"}

\* C1: the returned configuration list names the peers in the relative order
\* of the input slice, whatever the order in which the requests completed.
C1_ReturnedInInputOrder ==
    Returned =>
        \A a, b \in 1..Len(ret.configs) :
            a < b => ret.configs[a].Peer < ret.configs[b].Peer

\* C2: the returned list holds an entry for a peer exactly when its request
\* returned no error and non-zero parameters; that entry carries the peer's
\* parameters, and no peer has two entries.
C2_ListedIffCustom ==
    Returned =>
        /\ \A i \in Idx :
              /\ (EntriesOf(i) # {}) <=> (i \in CustomPeers)
              /\ Cardinality(EntriesOf(i)) <= 1
              /\ \A a \in EntriesOf(i) : ret.configs[a].Config = res[i].cfg
        /\ \A a \in 1..Len(ret.configs) : \E i \in Idx : a \in EntriesOf(i)

C2_Witness ==
    /\ Returned
    /\ N = 2
    /\ \E i \in Idx : res[i].err = "transport" /\ ~isConfigZero(res[i].cfg)
    /\ Len(ret.configs) = 1

\* C3: on return Total is the number of input peers, every peer is counted in
\* exactly one of Failed, Standard and WithConfig (a failed request as Failed
\* even with all-zero parameters), and WithConfig is the length of the list.
C3_StatsPartition ==
    Returned =>
        /\ ret.stats.Total = N
        /\ ret.stats.Failed = Cardinality(FailedPeers)
        /\ ret.stats.Standard = Cardinality(StandardPeers)
        /\ ret.stats.WithConfig = Cardinality(CustomPeers)
        /\ ret.stats.WithConfig + ret.stats.Standard + ret.stats.Failed = ret.stats.Total
        /\ ret.stats.WithConfig = Len(ret.configs)

C3_Witness ==
    /\ Returned
    /\ N = 2
    /\ \E i \in Idx : res[i].err = "deadline" /\ isConfigZero(res[i].cfg)
    /\ ret.stats.Failed = 1
    /\ ret.stats.WithConfig = 1

\* C4: never more than awgSyncMaxConcurrent requests are outstanding at once.
C4_BoundedInFlight == Cardinality(InFlight) <= awgSyncMaxConcurrent

\* The gate is full and a further goroutine waits for admission.
C4_Witness ==
    /\ Cardinality(InFlight) = awgSyncMaxConcurrent
    /\ \E j \in Idx : gpc[j] = "admit"

\* C5: whatever peers fail, the pass returns a nil error, and every peer
\* whose request did not fail was queried once and is reported in its class.
C5_FailuresNotFatal ==
    (mainPc = "done") =>
        /\ ret.returned
        /\ ret.err = "nil"
        /\ Len(printed) = N
        /\ \A i \in Idx :
              /\ reqCount[i] = 1
              /\ (i \notin FailedPeers) =>
                    /\ printed[i].peer = peers[i]
                    /\ printed[i].tag = IF isConfigZero(res[i].cfg) THEN "--" ELSE "OK"

C5_Witness ==
    /\ Returned
    /\ N = 2
    /\ res[1].err = "transport"
    /\ res[2].err = "nil"
    /\ printed[2].tag = "OK"

\* C6: a request that returns once ctx is cancelled returns an error, is
\* recorded as that peer's failure, and the pass still runs to its end and
\* returns a nil error.
C6_CancelIsPerPeerFailure ==
    /\ \A i \in Idx : cancelSeen[i] => res[i].failed /\ res[i].err = "canceled"
    /\ ctxCancelled => (mainPc = "done" \/ ENABLED DProgram)
    /\ (mainPc = "done") =>
          /\ ret.returned
          /\ ret.err = "nil"
          /\ \A i \in Idx : cancelSeen[i] => ordered[i].failed /\ printed[i].tag = "ERR"
          /\ ret.stats.Failed >= Cardinality({i \in Idx : cancelSeen[i]})

\* ctx was cancelled between the return of one request and of the other.
C6_Witness ==
    /\ Returned
    /\ N = 2
    /\ \E i, j \in Idx : cancelSeen[i] /\ ~cancelSeen[j] /\ res[j].err = "nil"

\* A peer whose request ran into its timeout and still holds its slot.
TimedOutHolding(i) == res[i].err = "deadline" /\ gpc[i] \in {"send", "release"}

\* C7 as stated: a goroutine waiting for admission never has to wait for
\* peers that did not respond before their timeout.
C7_NoSiblingWaits ==
    \A j \in Idx :
        (/\ gpc[j] = "admit"
         /\ \E i \in Idx : TimedOutHolding(i)
         /\ \A h \in Holders : TimedOutHolding(h))
            => ENABLED Acquire(j)

\* C7 amended: a timeout is recorded as a failure of that peer only, it never
\* ends a sibling's context or makes it fail, an outstanding request can
\* always return, and a goroutine waiting for admission is held up only while
\* all awgSyncMaxConcurrent slots are taken.
C7_TimeoutIsolated ==
    /\ sem = Cardinality(Holders)
    /\ \A j \in Idx :
          /\ (gpc[j] = "admit" /\ ~ENABLED Acquire(j))
                => Cardinality(Holders) = awgSyncMaxConcurrent
          /\ (gpc[j] = "inflight") => ENABLED Return(j)
          /\ (res[j].err = "canceled") => ctxCancelled
    /\ (mainPc = "done") =>
          /\ \A i \in Idx :
                /\ ordered[i] = res[i]
                /\ (res[i].err = "deadline") => printed[i].tag = "ERR"
                /\ (res[i].err = "nil") => printed[i].tag # "ERR"
          /\ ret.stats.Failed = Cardinality(FailedPeers)

\* One peer timed out; its sibling was answered and is not failed.
C7_Witness ==
    /\ Returned
    /\ ~ctxCancelled
    /\ \E i, j \in Idx : res[i].err = "deadline" /\ res[j].err = "nil" /\ printed[j].tag = "OK"

\* C8: when the statistics loop starts (and from then on) every goroutine has
\* finished, no request is outstanding and every index has its result.
C8_StatsAfterBarrier ==
    (mainPc \in {"stats", "done"}) =>
        /\ \A i \in Idx : gpc[i] = "exit" /\ ordered[i].idx = i /\ ordered[i] = res[i]
        /\ InFlight = {}
        /\ resultsCh = <<>>
        /\ chClosed
        /\ wg = 0
        /\ sem = 0

C8_Witness == mainPc = "stats" /\ statIdx = 1 /\ N = 2

(***************************************************************************)
(* Properties of ToUAPI.                                                   *)
(***************************************************************************)
UDone == upc = "done"

Keys(lines) == {lines[j][1] : j \in 1..Len(lines)}

DeviceKeys ==
    {"private_key", "jc", "jmin", "jmax", "s1", "s2", "s3", "s4",
     "i1", "i2", "i3", "i4", "i5", "h1", "h2", "h3", "h4"}

\* The peers of c that record their own public key as their endpoint.
EndpointsAsBuilt(c) ==
    \A j \in 1..Len(c.Peers) : c.Peers[j].WGEndpoint = c.Peers[j].PublicKey

\* The directives re-sent for a peer whose recorded endpoint is not its key.
RECURSIVE EndpointResends(_)
EndpointResends(ps) ==
    IF ps = <<>> THEN <<>>
    ELSE (IF Head(ps).WGEndpoint # Head(ps).PublicKey
          THEN <<Line("public_key", UntypedHexString(Head(ps).PublicKey)),
                 Line("protocol_version", "1"),
                 Line("endpoint", UntypedHexString(Head(ps).PublicKey))>>
          ELSE <<>>) \o EndpointResends(Tail(ps))

\* C9 as stated: reconciling any config against itself writes nothing.
C9_SelfReconcileWritesNothing ==
    (UDone /\ ucfg = uprev) => ucalls = <<>>

IsPrefix(x, y) == Len(x) <= Len(y) /\ \A j \in 1..Len(x) : x[j] = y[j]

\* C9 amended: reconciling a config against itself writes nothing when every
\* peer's recorded endpoint is its own public key; a peer whose recorded
\* endpoint differs gets public_key, protocol_version and endpoint again,
\* and nothing else is written (the writes stop at the first one the sink
\* rejects).
C9_SelfReconcile ==
    (UDone /\ ucfg = uprev) =>
        /\ EndpointsAsBuilt(ucfg) => ucalls = <<>>
        /\ IsPrefix(ucalls, EndpointResends(ucfg.Peers))
        /\ (stickyErr = 0) => ucalls = EndpointResends(ucfg.Peers)
        /\ (stickyErr # 0) => Len(ucalls) = stickyErr

C9_Witness ==
    /\ UDone
    /\ ucfg = uprev
    /\ Len(ucfg.Peers) = 2
    /\ EndpointsAsBuilt(ucfg)
    /\ \E j \in 1..2 : ucfg.Peers[j].PersistentKeepalive = 25 /\ Len(ucfg.Peers[j].AllowedIPs) = 2
    /\ ~isConfigZero(ucfg.Amnezia)

\* C10: device-level directives are written exactly when the private keys
\* of prev and cfg differ.
C10_DeviceBlockIffKeyChanged ==
    /\ (Keys(ucalls) \cap DeviceKeys # {}) => uprev.PrivateKey # ucfg.PrivateKey
    /\ (upc \notin {"device", "idle"} /\ uprev.PrivateKey # ucfg.PrivateKey)
          => "private_key" \in Keys(ucalls)

\* Same key, other obfuscation parameters: nothing is written.
C10_Witness ==
    /\ UDone
    /\ uprev.PrivateKey = ucfg.PrivateKey
    /\ uprev.Amnezia # ucfg.Amnezia
    /\ ~isConfigZero(ucfg.Amnezia)
    /\ ucalls = <<>>

\* C11: when the desired H1 is {0,0} (and no override knob is set), none of
\* h1, h2, h3, h4 is written, whatever H2, H3 and H4 hold and even when the
\* identity key has changed.
C11_HeadersAllOrNone ==
    (ucfg.Amnezia.H1 = MagicHeaderRange(0, 0) /\ uenv = ZeroEnv)
        => Keys(ucalls) \cap {"h1", "h2", "h3", "h4"} = {}

\* C12: when the desired S1 is zero (and no override knob is set), none of
\* s1, s2, s3, s4 is written, whatever S2, S3 and S4 hold.
C12_PrefixesAllOrNone ==
    (ucfg.Amnezia.S1 = 0 /\ uenv = ZeroEnv)
        => Keys(ucalls) \cap {"s1", "s2", "s3", "s4"} = {}

\* C13: when the desired I1 is empty (and no override knob is set), none of
\* i2, i3, i4, i5 is written, whatever they hold.
C13_SignatureChain ==
    (ucfg.Amnezia.I1 = "" /\ uenv = ZeroEnv)
        => Keys(ucalls) \cap {"i2", "i3", "i4", "i5"} = {}

(***************************************************************************)
(* The peer blocks of the output: a block starts at a public_key line and  *)
(* runs up to the next one.                                                *)
(***************************************************************************)
Header(k) == Line("public_key", UntypedHexString(k))

\* The index of the public_key line that opens the block of line j (0 in the
\* device block).
BlockStart(j) ==
    LET hs == {i \in 1..j : ucalls[i][1] = "public_key"} IN
    IF hs = {} THEN 0 ELSE CHOOSE i \in hs : \A h \in hs : h <= i

PeerConfigKeys ==
    {"protocol_version", "endpoint", "replace_allowed_ips", "allowed_ip",
     "persistent_keepalive_interval"}

\* The public_key lines that open a removal / a configuration block.
RemovalAt == {j \in 1..Len(ucalls) : ucalls[j][1] = "remove" /\ BlockStart(j) > 0}
Removals == {BlockStart(j) : j \in RemovalAt}
ConfigLines == {j \in 1..Len(ucalls) : ucalls[j][1] \in PeerConfigKeys}
Reconfigurations == {BlockStart(j) : j \in ConfigLines} \ {0}

PrevKeys == {uprev.Peers[j].PublicKey : j \in 1..Len(uprev.Peers)}
CfgKeys == {ucfg.Peers[j].PublicKey : j \in 1..Len(ucfg.Peers)}

\* C14: in every peer block the persistent_keepalive_interval line is the
\* last line of the block, after the endpoint line, replace_allowed_ips and
\* every allowed_ip line of that peer.
C14_KeepaliveLast ==
    \A j \in 1..Len(ucalls) :
        (ucalls[j][1] = "persistent_keepalive_interval") =>
            /\ BlockStart(j) > 0
            /\ (j = Len(ucalls) \/ ucalls[j + 1][1] = "public_key")
            /\ \A i \in 1..Len(ucalls) :
                  (/\ BlockStart(i) = BlockStart(j)
                   /\ ucalls[i][1] \in {"endpoint", "replace_allowed_ips", "allowed_ip"})
                      => i < j

\* A block with endpoint, two allowed IPs and keepalive, and a block after it.
C14_Witness ==
    /\ UDone
    /\ \E j \in 5..Len(ucalls) :
          /\ ucalls[j][1] = "persistent_keepalive_interval"
          /\ ucalls[j - 1][1] = "allowed_ip"
          /\ ucalls[j - 2][1] = "allowed_ip"
          /\ ucalls[j - 4][1] = "endpoint"
          /\ j < Len(ucalls)

\* C15: no public key is both removed and configured in one invocation, and
\* no block holds both remove and a configuration directive.
C15_RemovalDisjoint ==
    /\ {ucalls[j][2] : j \in Removals} \cap {ucalls[j][2] : j \in Reconfigurations} = {}
    /\ Removals \cap Reconfigurations = {}

\* One peer is configured again and another one is removed.
C15_Witness ==
    /\ UDone
    /\ stickyErr = 0
    /\ Removals # {}
    /\ Reconfigurations # {}
    /\ PrevKeys \cap CfgKeys # {}
    /\ \E j \in Reconfigurations : \E k \in PrevKeys : ucalls[j] = Header(k)

\* C16: only keys of prev.Peers that are not in cfg.Peers are removed, each at
\* most once, a removal is public_key followed by remove=true, and nothing
\* but removals follows a removal; an invocation whose writes all succeed
\* ends with exactly one removal for each such key.
C16_RemovalsExact ==
    /\ \A j \in RemovalAt :
          /\ ucalls[j] = Line("remove", "true")
          /\ BlockStart(j) = j - 1
          /\ \E k \in PrevKeys \ CfgKeys : ucalls[j - 1] = Header(k)
          /\ \A i \in RemovalAt : ucalls[i - 1] = ucalls[j - 1] => i = j
          /\ \A i \in ConfigLines : i < j - 1
          /\ \A i \in (j + 1)..Len(ucalls) : ucalls[i][1] \in {"public_key", "remove"}
    /\ (UDone /\ stickyErr = 0) =>
          \A k \in PrevKeys \ CfgKeys :
              Cardinality({j \in RemovalAt : ucalls[j - 1] = Header(k)}) = 1

\* Two peers are removed after a block that configures a third one.
C16_Witness ==
    /\ UDone
    /\ stickyErr = 0
    /\ Cardinality(PrevKeys \ CfgKeys) = 2
    /\ Cardinality(RemovalAt) = 2
    /\ ConfigLines # {}

\* The peer p of cfg is in prev with the endpoint that ToUAPI would write for
\* it (its public key), the same allowed-IP set and the same keepalive.
PeerUnchanged(p) ==
    /\ wasPresent(uprev, p.PublicKey)
    /\ oldPeer(uprev, p.PublicKey).WGEndpoint = p.PublicKey
    /\ Elems(oldPeer(uprev, p.PublicKey).AllowedIPs) = Elems(p.AllowedIPs)
    /\ oldPeer(uprev, p.PublicKey).PersistentKeepalive = p.PersistentKeepalive

FailedWrites(n) == {m \in wfails : m <= n}

\* C18: once a write fails nothing more is handed to the sink: the failed
\* write is the last one, and the sink holds exactly the directives before it.
C18_StickyError ==
    /\ (stickyErr = 0) => (usink = ucalls /\ FailedWrites(Len(ucalls)) = {})
    /\ (stickyErr # 0) =>
          /\ Len(ucalls) = stickyErr
          /\ FailedWrites(Len(ucalls)) = {stickyErr}
          /\ usink = SubSeq(ucalls, 1, stickyErr - 1)

\* The second write failed; peers and removals were still to be written.
C18_Witness ==
    /\ UDone
    /\ stickyErr = 2
    /\ Len(usink) = 1
    /\ Len(ucfg.Peers) = 2
    /\ PrevKeys \ CfgKeys # {}
    /\ wfails = {2}

\* C19: the returned error is nil exactly when no write failed, and otherwise
\* wraps the error of the first failed write.
C19_ReturnsFirstFailure ==
    UDone =>
        /\ uret.returned
        /\ (uret.wraps = 0) <=> (FailedWrites(Len(ucalls)) = {})
        /\ (uret.wraps # 0) =>
              /\ uret.wraps \in FailedWrites(Len(ucalls))
              /\ \A m \in FailedWrites(Len(ucalls)) : uret.wraps <= m

\* The sink rejects its first two writes; the error of the first is returned.
C19_Witness ==
    /\ UDone
    /\ wfails = {1, 2}
    /\ uret.wraps = 1
    /\ Len(ucfg.Peers) > 0

\* The block that ToUAPI is to write for a peer whose allowed IPs and
\* keepalive change and whose endpoint does not.
IPsAndKeepaliveBlock(p) ==
    <<Header(p.PublicKey), Line("protocol_version", "1"), Line("replace_allowed_ips", "true")>>
        \o [j \in 1..Len(p.AllowedIPs) |-> Line("allowed_ip", p.AllowedIPs[j])]
        \o <<Line("persistent_keepalive_interval", ToString(p.PersistentKeepalive))>>

Uint16Keys ==
    {<<"jc", "JC">>, <<"jmin", "JMin">>, <<"jmax", "JMax">>,
     <<"s1", "S1">>, <<"s2", "S2">>, <<"s3", "S3">>, <<"s4", "S4">>}
StringKeys == {<<"i1", "I1">>, <<"i2", "I2">>, <<"i3", "I3">>, <<"i4", "I4">>, <<"i5", "I5">>}
HeaderKeys == {<<"h1", "H1">>, <<"h2", "H2">>, <<"h3", "H3">>, <<"h4", "H4">>}

\* The values written for the key k.
ValuesWritten(k) == {ucalls[j][2] : j \in {i \in 1..Len(ucalls) : ucalls[i][1] = k}}

\* The device block has been written in full.
DeviceBlockWritten ==
    /\ upc \notin {"device", "idle"}
    /\ stickyErr = 0
    /\ uprev.PrivateKey # ucfg.PrivateKey

\* The value a field is expected to take: the stored value when it is
\* non-zero, otherwise the environment knob.
Effective16(f) == IF ucfg.Amnezia[f] # 0 THEN ucfg.Amnezia[f] ELSE uenv[f] % 65536
EffectiveString(f) == IF ucfg.Amnezia[f] # "" THEN ucfg.Amnezia[f] ELSE uenv[f]
EffectiveHeader(f) ==
    IF ucfg.Amnezia[f] # MagicHeaderRange(0, 0) THEN ucfg.Amnezia[f]
    ELSE MagicHeaderRange(uenv[f], uenv[f])

HeaderText(h) ==
    IF h.Min = h.Max THEN ToString(h.Min) ELSE ToString(h.Min) \o "-" \o ToString(h.Max)

\* C21: a field whose resolved value is zero or empty yields no directive
\* (and one whose resolved value is not does); with an empty prev, a changed
\* identity, no knob and {JC 4, JMin 64, JMax 96} the device block is
\* private_key, jc=4, jmin=64, jmax=96.
C21_ZeroFieldsSilent ==
    DeviceBlockWritten =>
        /\ \A kf \in Uint16Keys : (kf[1] \in Keys(ucalls)) <=> (Effective16(kf[2]) # 0)
        /\ \A kf \in StringKeys : (kf[1] \in Keys(ucalls)) <=> (EffectiveString(kf[2]) # "")
        /\ \A kf \in HeaderKeys :
              (kf[1] \in Keys(ucalls)) <=> (EffectiveHeader(kf[2]) # MagicHeaderRange(0, 0))
        /\ (/\ uprev = MkConfig(ZeroKey, <<>>, ZeroPrefs)
            /\ ucfg.Peers = <<>>
            /\ ucfg.Amnezia = JunkPrefs
            /\ uenv = ZeroEnv)
              => ucalls = <<Line("private_key", UntypedHexString(ucfg.PrivateKey)),
                            Line("jc", "4"), Line("jmin", "64"), Line("jmax", "96")>>

C21_Witness ==
    /\ UDone
    /\ uprev = MkConfig(ZeroKey, <<>>, ZeroPrefs)
    /\ ucfg = MkConfig("a", <<>>, JunkPrefs)
    /\ uenv = ZeroEnv
    /\ ucalls = <<Line("private_key", "hex:a"), Line("jc", "4"),
                  Line("jmin", "64"), Line("jmax", "96")>>

\* C22: in the device block a field whose stored value is non-zero is written
\* with the stored value, whatever the environment knob; the knob's value is
\* written only for a field whose stored value is zero or empty.
C22_StoredWinsOverEnv ==
    DeviceBlockWritten =>
        /\ \A kf \in Uint16Keys :
              /\ (ucfg.Amnezia[kf[2]] # 0)
                    => ValuesWritten(kf[1]) = {ToString(ucfg.Amnezia[kf[2]])}
              /\ (ucfg.Amnezia[kf[2]] = 0)
                    => ValuesWritten(kf[1]) \subseteq {ToString(uenv[kf[2]] % 65536)}
        /\ \A kf \in StringKeys :
              /\ (ucfg.Amnezia[kf[2]] # "") => ValuesWritten(kf[1]) = {ucfg.Amnezia[kf[2]]}
              /\ (ucfg.Amnezia[kf[2]] = "") => ValuesWritten(kf[1]) \subseteq {uenv[kf[2]]}
        /\ \A kf \in HeaderKeys :
              /\ (ucfg.Amnezia[kf[2]] # MagicHeaderRange(0, 0))
                    => ValuesWritten(kf[1]) = {HeaderText(ucfg.Amnezia[kf[2]])}
              /\ (ucfg.Amnezia[kf[2]] = MagicHeaderRange(0, 0))
                    => ValuesWritten(kf[1]) \subseteq {ToString(uenv[kf[2]])}

\* C40: for a 16-bit field whose stored value is zero, the directive carries
\* the environment override exactly as it was given, whatever its value.
C40_OverrideWrittenExactly ==
    DeviceBlockWritten =>
        \A kf \in Uint16Keys :
            (ucfg.Amnezia[kf[2]] = 0 /\ uenv[kf[2]] # 0)
                => ValuesWritten(kf[1]) = {ToString(uenv[kf[2]])}

\* Stored values and knobs are both set for jc, or for i2 and h3.
C22_Witness ==
    /\ UDone
    /\ DeviceBlockWritten
    /\ ucfg.Amnezia = FullPrefs
    /\ uenv.H3 = 9
    /\ uenv.I2 = "<r 8>"
    /\ ValuesWritten("h3") = {"30"}
    /\ ValuesWritten("i2") = {"<c>"}

\* C23: a header field with neither a stored value nor an environment knob
\* resolves to its standard default (1, 2, 3, 4), which is what is written.
C23_HeaderDefaults ==
    DeviceBlockWritten =>
        \A n \in 1..4 :
            LET kf == CHOOSE x \in HeaderKeys : x[1] = "h" \o ToString(n) IN
            (ucfg.Amnezia[kf[2]] = MagicHeaderRange(0, 0) /\ uenv[kf[2]] = 0)
                => /\ ResolveHeader(ucfg.Amnezia[kf[2]], uenv[kf[2]]) = MagicHeaderRange(n, n)
                   /\ ValuesWritten(kf[1]) = {ToString(n)}

(***************************************************************************)
(* New peers.                                                              *)
(***************************************************************************)
\* The block that ToUAPI is to write for a peer that is not in prev.
NewPeerBlock(p) ==
    <<Header(p.PublicKey), Line("protocol_version", "1"),
      Line("endpoint", UntypedHexString(p.PublicKey)), Line("replace_allowed_ips", "true")>>
        \o [j \in 1..Len(p.AllowedIPs) |-> Line("allowed_ip", p.AllowedIPs[j])]
        \o (IF p.PersistentKeepalive # 0
            THEN <<Line("persistent_keepalive_interval", ToString(p.PersistentKeepalive))>>
            ELSE <<>>)

\* The output holds exactly one block for the key of p, and it is b.
HasBlock(p, b) ==
    \E j \in 1..Len(ucalls) :
        /\ j + Len(b) - 1 <= Len(ucalls)
        /\ SubSeq(ucalls, j, j + Len(b) - 1) = b
        /\ (j + Len(b) <= Len(ucalls)) => ucalls[j + Len(b)][1] = "public_key"
        /\ \A h \in 1..Len(ucalls) : ucalls[h] = Header(p.PublicKey) => h = j

\* C29: for a peer of cfg that is not in prev the output (when every write
\* succeeds) holds public_key, protocol_version=1, endpoint,
\* replace_allowed_ips and its allowed IPs, and persistent_keepalive_interval
\* only when its keepalive is not zero.
C29_NewPeerBlock ==
    (UDone /\ stickyErr = 0) =>
        \A i \in 1..Len(ucfg.Peers) :
            ~wasPresent(uprev, ucfg.Peers[i].PublicKey)
                => HasBlock(ucfg.Peers[i], NewPeerBlock(ucfg.Peers[i]))

\* Two new peers, one with keepalive 0 and one with keepalive 25.
C29_Witness ==
    /\ UDone
    /\ stickyErr = 0
    /\ uprev.Peers = <<>>
    /\ Len(ucfg.Peers) = 2
    /\ ucfg.Peers[1].PersistentKeepalive = 0
    /\ ucfg.Peers[2].PersistentKeepalive = 25
    /\ Cardinality({j \in 1..Len(ucalls) : ucalls[j][1] = "persistent_keepalive_interval"}) = 1
    /\ Cardinality({j \in 1..Len(ucalls) : ucalls[j][1] = "endpoint"}) = 2

(***************************************************************************)
(* Requests of a discovery pass.                                           *)
(***************************************************************************)
\* C30: a pass issues exactly one request per input peer: none before the
\* goroutine is admitted, one from then on, also when ctx is cancelled while
\* peers wait for admission.
C30_OneRequestPerPeer ==
    /\ DOMAIN reqCount = Idx
    /\ \A i \in Idx :
          reqCount[i] = IF gpc[i] \in {"none", "admit"} THEN 0 ELSE 1
    /\ (mainPc \in {"stats", "done"}) => \A i \in Idx : reqCount[i] = 1

\* ctx was cancelled while a peer waited for admission; that peer has been
\* admitted since and its request is outstanding.
C30_Witness ==
    /\ ctxCancelled
    /\ \E i, j \in Idx :
          /\ i # j
          /\ cancelSeen[i]
          /\ gpc[j] = "inflight"
          /\ reqCount[j] = 1
          /\ reqCount[i] = 1

(***************************************************************************)
(* Report order, shared structures and termination of a discovery pass.    *)
(***************************************************************************)
\* The tag of the report line for the i-th input peer.
ExpectedTag(i) ==
    IF res[i].err # "nil" THEN "ERR"
    ELSE IF res[i].cfg = ZeroPrefs THEN "--" ELSE "OK"

\* C32: the report lines are written one per input peer in the order of the
\* input, each with the tag of that peer's outcome, whatever the order in
\* which the requests complete.
C32_ReportInInputOrder ==
    /\ Len(printed) <= Len(peers)
    /\ \A j \in 1..Len(printed) :
          /\ printed[j].peer = peers[j]
          /\ printed[j].tag = ExpectedTag(j)
    /\ (mainPc = "done") => Len(printed) = Len(peers)

\* The second peer completed before the first one, and the report is in the
\* order of the input.
C32_Witness ==
    /\ mainPc = "done"
    /\ Len(peers) = 2
    /\ Len(configs) = 2
    /\ configs[1].Peer = peers[2]
    /\ configs[2].Peer = peers[1]
    /\ printed = <<[tag |-> "OK", peer |-> peers[1]], [tag |-> "OK", peer |-> peers[2]]>>

\* The number of results of the i-th goroutine in the channel or collected.
ResultsOf(i) ==
    Cardinality({j \in 1..Len(resultsCh) : resultsCh[j].idx = i})
        + (IF i <= Len(ordered) /\ ordered[i].idx = i THEN 1 ELSE 0)

C34_PassTerminates ==
    <>(/\ mainPc = "done"
       /\ ret.returned
       /\ \A i \in Idx : gpc[i] = "exit"
       /\ chClosed
       /\ resultsCh = <<>>
       /\ sem = 0
       /\ wg = 0)

\* A pass over more peers than admission slots is over, one of its peers
\* having stayed silent until its deadline.
C34_Witness ==
    /\ mainPc = "done"
    /\ Len(peers) > awgSyncMaxConcurrent
    /\ \E i \in Idx : res[i].err = "deadline"
    /\ sem = 0
    /\ chClosed

(***************************************************************************)
(* Cancelling, applying and rejecting in the selection workflow.           *)
(***************************************************************************)
\* The lines that cancel at the choice prompt, and the answers at the
\* confirmation prompt.
CancelChoices == {EOF, "", "0"}
YesAnswers == {"", "y", "YES"}
NoAnswers == {"n", "No"}

\* The lines that name one of n candidates.
ValidChoices(n) == {t \in Lines : \E k \in 1..n : TrimSpace(t) = ToString(k)}

\* The last line read cancels the workflow.
CancelLine ==
    \/ slast.prompt = "select" /\ slast.text \in CancelChoices
    \/ slast.prompt = "confirm" /\ slast.text = EOF

\* C35: after a cancelling line (0, an empty choice or the end of input at
\* the choice prompt, the end of input at the confirmation prompt) the
\* workflow has returned nil, no edit was handed to EditPrefs, the restart
\* prompt was not reached, and the preferences are those of the start.
C35_CancelLeavesConfig ==
    /\ CancelLine =>
          /\ smsg = "Cancelled."
          /\ spc = "done"
          /\ sret = "nil"
          /\ sedits = <<>>
          /\ sprefs \in NodePrefs
    /\ (smsg = "Cancelled.") => CancelLine

\* The workflow was cancelled by the end of input at the confirmation
\* prompt, on a node that has a configuration of its own.
C35_Witness ==
    /\ slast = [prompt |-> "confirm", text |-> EOF, sel |-> 1]
    /\ spc = "done"
    /\ sret = "nil"
    /\ sprefs.AmneziaWG # ZeroPrefs
    /\ sedits = <<>>

\* C36: at most one edit is handed to EditPrefs; it carries the parameters
\* of the candidate selected last and is made right after a yes or empty
\* answer at the confirmation prompt; the restart prompt is reached only
\* after an edit that succeeded.
C36_ApplyOnceAfterYes ==
    /\ Len(sedits) <= 1
    /\ (sedits # <<>>) =>
          /\ ssel \in 1..Len(scands)
          /\ sedits[1].Prefs.AmneziaWG = scands[ssel].Config
          /\ spc \in {"restart", "done"}
          /\ slast.prompt \in {"confirm", "restart"}
          /\ (slast.prompt = "confirm") =>
                (slast.text \in YesAnswers /\ slast.sel = ssel)
    /\ (sedits = <<>>) => (sprefs \in NodePrefs /\ spc # "restart" /\ slast.prompt # "restart")
    /\ (spc = "restart" \/ slast.prompt = "restart") =>
          /\ Len(sedits) = 1
          /\ sprefs.AmneziaWG = scands[ssel].Config
    /\ (spc = "restart") =>
          /\ smsg = "AWG configuration synced"
          /\ slast.prompt = "confirm"
    /\ (sret = "failed to apply configuration") =>
          /\ Len(sedits) = 1
          /\ sprefs \in NodePrefs
          /\ slast.prompt = "confirm"
    /\ (slast.prompt = "confirm" /\ slast.text \in YesAnswers) => Len(sedits) = 1

\* The first candidate was selected and declined, the second one selected
\* and applied.
C36_Witness ==
    /\ spc = "restart"
    /\ snos = 1
    /\ ssel = 2
    /\ scands[1].Config # scands[2].Config
    /\ sprefs.AmneziaWG = scands[2].Config
    /\ Len(sedits) = 1

\* The last line read at the choice prompt neither cancels nor names a
\* candidate.
RejectedChoice ==
    /\ slast.prompt = "select"
    /\ slast.text \notin CancelChoices
    /\ slast.text \notin ValidChoices(Len(scands))

\* C37: a choice that does not cancel and is not an integer between 1 and
\* the number of candidates is rejected: the list is printed again, nothing
\* is applied and no candidate is selected by it; the selected index is
\* always one of the list; an answer that is neither yes nor no asks the
\* confirmation again for the same candidate.
C37_InvalidChoiceRejected ==
    /\ RejectedChoice =>
          /\ smsg = "Invalid choice"
          /\ spc = "select"
          /\ sshown = Listing(scands)
          /\ ssel = slast.sel
          /\ sedits = <<>>
          /\ sprefs \in NodePrefs
    /\ (smsg = "Invalid choice") => RejectedChoice
    /\ (spc \in {"confirm", "restart"} \/ sedits # <<>>) => ssel \in 1..Len(scands)
    /\ (slast.prompt = "select" /\ slast.text \in ValidChoices(Len(scands))) =>
          /\ ssel \in 1..Len(scands)
          /\ TrimSpace(slast.text) = ToString(ssel)
          /\ spc = "confirm"
    /\ (slast.prompt = "confirm" /\ slast.text \notin ({EOF} \cup YesAnswers \cup NoAnswers)) =>
          /\ smsg = "Please answer Y (apply) or N (return to list)."
          /\ spc = "confirm"
          /\ ssel = slast.sel
          /\ sedits = <<>>

\* A choice above the number of candidates was rejected after the first
\* candidate had been selected and declined.
C37_Witness ==
    /\ slast = [prompt |-> "select", text |-> "3", sel |-> 1]
    /\ smsg = "Invalid choice"
    /\ spc = "select"
    /\ Len(scands) = 2
    /\ snos = 1

\* C37 as stated: every choice that is not an integer between 1 and the
\* number of candidates is rejected and the list is shown again.
C37_EveryOtherChoiceRejected ==
    (/\ slast.prompt = "select"
     /\ slast.text # EOF
     /\ slast.text \notin ValidChoices(Len(scands))) =>
        /\ smsg = "Invalid choice"
        /\ spc = "select"
        /\ sshown = Listing(scands)

(***************************************************************************)
(* Endpoint drift.                                                         *)
(***************************************************************************)
\* The peer p of cfg is in prev with a recorded endpoint other than its key.
Drifted(p) ==
    wasPresent(uprev, p.PublicKey) /\ oldPeer(uprev, p.PublicKey).WGEndpoint # p.PublicKey

\* The loop over cfg.Peers is past its i-th peer.
PeerHandled(i) == (upc = "peers" /\ upi > i) \/ upc \in {"remove", "done"}

\* The peer p of cfg differs from its record in prev or is new.
PeerChanged(p) ==
    \/ ~wasPresent(uprev, p.PublicKey)
    \/ oldPeer(uprev, p.PublicKey).WGEndpoint # p.PublicKey
    \/ Elems(oldPeer(uprev, p.PublicKey).AllowedIPs) # Elems(p.AllowedIPs)
    \/ oldPeer(uprev, p.PublicKey).PersistentKeepalive # p.PersistentKeepalive

\* C31: a peer of prev whose recorded endpoint is not the expected one is
\* logged once as [unexpected], a new peer is never logged; the endpoint
\* directive is written for the drifted peer, the other changed peers and the
\* removals are written too, and nil is returned when no write is rejected.
C31_DriftNotFatal ==
    /\ \A j \in 1..Len(ulog) :
          /\ ulog[j].msg = "[unexpected] endpoint changed"
          /\ \E i \in 1..Len(ucfg.Peers) :
                ucfg.Peers[i].PublicKey = ulog[j].peer /\ Drifted(ucfg.Peers[i])
    /\ \A i \in 1..Len(ucfg.Peers) :
          (PeerHandled(i) /\ Drifted(ucfg.Peers[i]))
              => Cardinality({j \in 1..Len(ulog) : ulog[j].peer = ucfg.Peers[i].PublicKey}) = 1
    /\ (UDone /\ stickyErr = 0) =>
          /\ \A i \in 1..Len(ucfg.Peers) :
                LET p == ucfg.Peers[i] IN
                /\ Drifted(p) =>
                      \E j \in 1..(Len(ucalls) - 2) :
                          /\ ucalls[j] = Header(p.PublicKey)
                          /\ ucalls[j + 1] = Line("protocol_version", "1")
                          /\ ucalls[j + 2] = Line("endpoint", UntypedHexString(p.PublicKey))
                /\ PeerChanged(p) =>
                      Cardinality({j \in 1..Len(ucalls) : ucalls[j] = Header(p.PublicKey)}) = 1
          /\ \A k \in PrevKeys \ CfgKeys :
                \E j \in RemovalAt : ucalls[j - 1] = Header(k)
          /\ uret = [returned |-> TRUE, wraps |-> 0]

\* The first peer has drifted, a new peer follows it and a peer is removed.
C31_Witness ==
    /\ UDone
    /\ stickyErr = 0
    /\ Len(ucfg.Peers) = 2
    /\ Drifted(ucfg.Peers[1])
    /\ ~wasPresent(uprev, ucfg.Peers[2].PublicKey)
    /\ PrevKeys \ CfgKeys # {}
    /\ Len(ulog) = 1
    /\ RemovalAt # {}
    /\ uret = [returned |-> TRUE, wraps |-> 0]

(***************************************************************************)
(* Properties of the interactive sync.                                     *)
(***************************************************************************)
\* C24: after a "no" at the confirmation prompt the handler is back at the
\* selection list, which shows the same candidates; no discovery pass was
\* run beyond the first, no edit was handed to EditPrefs, and every
\* candidate of the list can be chosen again.
C24_NoReturnsToList ==
    (spc = "select" /\ smsg = "Not applied. Returning to list.") =>
        /\ snos >= 1
        /\ sshown = Listing(scands)
        /\ Len(scands) >= 1
        /\ sdisc = 1
        /\ sedits = <<>>
        /\ sprefs \in NodePrefs
        /\ sret = "none"
        /\ \A i \in 1..Len(scands) :
              LET a == Atoi(TrimSpace(ToString(i))) IN
              ~a.err /\ a.val = i

\* The second candidate is selected after two returns to the list.
C24_Witness ==
    /\ spc = "confirm"
    /\ snos = 2
    /\ ssel = 2
    /\ sdisc = 1
    /\ sedits = <<>>

\* C25: every edit handed to EditPrefs marks AmneziaWG alone as set and
\* carries the parameters of the selected candidate; the node's other
\* preferences are never changed, and after a successful apply its
\* AmneziaWG preferences are the selected parameters.
C25_EditOnlyAmneziaWG ==
    /\ \A j \in 1..Len(sedits) :
          /\ sedits[j].Set = {"AmneziaWG"}
          /\ sedits[j].Prefs.AmneziaWG = scands[ssel].Config
    /\ \A f \in OtherPrefs : \A q \in NodePrefs : sprefs[f] = q[f]
    /\ (smsg = "AWG configuration synced") => sprefs.AmneziaWG = scands[ssel].Config
    /\ (sedits = <<>>) => sprefs \in NodePrefs

\* The parameters of the second candidate were applied to a node that had
\* others.
C25_Witness ==
    /\ spc = "restart"
    /\ ssel = 2
    /\ Len(sedits) = 1
    /\ sprefs = [AmneziaWG |-> FullPrefs, WantRunning |-> TRUE, Hostname |-> "node"]
    /\ snos = 1

(***************************************************************************)
(* Properties of the interactive prompts.                                  *)
(***************************************************************************)
Uint16Fields == {"JC", "JMin", "JMax", "S1", "S2", "S3", "S4"}

\* The line typed at the last prompt is a numeral of the field's width.
TypedValid(bitSize) ==
    plast.text # EOF /\ ParseUint(TrimSpace(plast.text), bitSize).err = "nil"
TypedValue(bitSize) == ParseUint(TrimSpace(plast.text), bitSize).val

\* C27: a syntactically valid value typed at a prompt is the value held for
\* the field afterwards, whether or not it lies in the recommended or
\* consistent range; no prompt replaces it with another value.
C27_EnteredValueStored ==
    /\ (plast.field \in Uint16Fields /\ TypedValid(16))
          => pcfg[plast.field] = TypedValue(16)[2]
    /\ \A k \in 1..4 :
          /\ (plast.field = HName(k) \o "min" /\ TypedValid(32))
                => IF ppos = "done"
                   THEN pcfg[HName(k)].Min = TypedValue(32)
                   ELSE pmin = TypedValue(32)
          /\ (plast.field = HName(k) \o "max" /\ TypedValid(32))
                => pcfg[HName(k)] = [Min |-> pmin, Max |-> TypedValue(32)]

\* The last line typed is the keyword random or rand.
KeywordTyped == plast.text # EOF /\ ToLower(TrimSpace(plast.text)) \in {"random", "rand"}

\* C38: all fields of the prefix or header section are generated only when
\* the keyword random or rand was typed; a numeral typed at a prefix prompt
\* or at a header minimum prompt is the value held afterwards, 65535 and
\* 4294967295 included.
C38_RandomOnlyOnKeyword ==
    /\ ("Generating random values" \in pmsgs) => KeywordTyped
    /\ \A k \in 1..4 :
          /\ (plast.field = SName(k) /\ TypedValid(16))
                => pcfg[SName(k)] = TypedValue(16)[2]
          /\ (plast.field = HName(k) \o "min" /\ TypedValid(32) /\ ppos # "done")
                => pmin = TypedValue(32)

\* The last prompt was a header prompt and it ended in the generation of
\* all header fields.
HeadersGenerated ==
    /\ "Generating random values" \in pmsgs
    /\ \E k \in 1..4 : plast.field \in {HName(k) \o "min", HName(k) \o "max"}

U32Leq(a, b) == ~U32Less(b, a)

\* C39: the four generated header ranges are 32-bit values with
\* 5 <= Min <= Max <= 4294967295 each (an addition that wrapped would leave
\* Max below Min or Min below its segment), and H1.Max < H2.Min,
\* H2.Max < H3.Min, H3.Max < H4.Min.
C39_GeneratedRangesOrdered ==
    HeadersGenerated =>
        /\ \A k \in 1..4 :
              LET h == pcfg[HName(k)] IN
              /\ h.Min \in (0..65535) \X (0..65535)
              /\ h.Max \in (0..65535) \X (0..65535)
              /\ U32Leq(U32(0, 5), h.Min)
              /\ U32Leq(h.Min, h.Max)
              /\ U32Leq(h.Max, U32(65535, 65535))
        /\ \A k \in 1..3 : U32Less(pcfg[HName(k)].Max, pcfg[HName(k + 1)].Min)

\* The keyword was typed at the first header prompt and the clock gave a
\* seed for which H4 ends at 4294967295.
C39_Witness ==
    /\ HeadersGenerated
    /\ KeywordTyped
    /\ plast.field = "H1min"
    /\ pcfg.H1 = [Min |-> U32(1739, 57818), Max |-> U32(9143, 59635)]
    /\ pcfg.H4 = [Min |-> U32(53536, 47181), Max |-> U32(65535, 65535)]

(***************************************************************************)
(* Properties of the pure functions.                                       *)
(***************************************************************************)
\* C26: isConfigZero returns true exactly when every field is zero or empty
\* (JC, JMin, JMax, S1..S4, I1..I5 and both bounds of H1..H4).
C26_ZeroIffAllFieldsZero ==
    (fkind = "isConfigZero" /\ fout.returned) =>
        (fout.zero <=> \A f \in PrefsFields : fcfg[f] = ZeroPrefs[f])

\* Only the upper bound of H3 is set: not zero.
C26_Witness ==
    /\ fkind = "isConfigZero"
    /\ fout.returned
    /\ ~fout.zero
    /\ fcfg = [ZeroPrefs EXCEPT !.H3 = MagicHeaderRange(0, 5)]

\* C28: cidrsEqual(x, y) is true exactly when x and y hold the same set of
\* prefixes, and cidrsEqual(x, y) = cidrsEqual(y, x), repeated prefixes
\* included.
C28_CidrsEqualIsSetEquality ==
    (fkind = "cidrsEqual" /\ fout.returned) =>
        /\ fout.xy <=> (Elems(fx) = Elems(fy))
        /\ fout.xy = fout.yx

====
